---- MODULE Spec2Model ----
(***************************************************************************)
(* Model of the GNU-compatibility build pipeline of fcoreutils:            *)
(*   src/assembly/build_tool.py  (splicer, patcher, build strategies,      *)
(*                                batch driver)                            *)
(*   src/assembly/yes/build.py   (patch_asm and its driver)                *)
(*   src/assembly/*/tests/security_tests.py  (the accounting of results)   *)
(*   src/asm/build_unified.py    (the layout of the .bss reservations)     *)
(*                                                                         *)
(* Text is modelled character by character: a string is a sequence of     *)
(* one-character strings and a source text is the sequence of its lines   *)
(* (content.split("\n") / "\n".join(result)).  A byte payload is a        *)
(* sequence of integers in 0..255.                                         *)
(***************************************************************************)
EXTENDS Integers, Sequences, FiniteSets, TLC

(***************************************************************************)
(* Bounds of the model                                                     *)
(***************************************************************************)
MaxLines == 3
MaxEncodeLines == 1
MaxPatchLines == 2
MaxPayloadLen == 33
MaxTools == 2
MaxReports == 4
MaxBssLines == 3

(***************************************************************************)
(* Python string primitives                                                *)
(***************************************************************************)
Min(a, b) == IF a < b THEN a ELSE b

UpperCase == <<"A","B","C","D","E","F","G","H","I","J","K","L","M",
               "N","O","P","Q","R","S","T","U","V","W","X","Y","Z">>
LowerCase == <<"a","b","c","d","e","f","g","h","i","j","k","l","m",
               "n","o","p","q","r","s","t","u","v","w","x","y","z">>
Digits == <<"0","1","2","3","4","5","6","7","8","9">>
HexDigits == <<"0","1","2","3","4","5","6","7","8","9","a","b","c","d","e","f">>

Range(f) == {f[k] : k \in DOMAIN f}

\* str.lower() on one character
LowerOf == [c \in Range(UpperCase) |-> LowerCase[CHOOSE k \in 1..26 : UpperCase[k] = c]]
LowerChar(c) == IF c \in DOMAIN LowerOf THEN LowerOf[c] ELSE c

\* str.lower()
lower(s) == [k \in 1..Len(s) |-> LowerChar(s[k])]

\* the characters str.strip() removes
IsSpace(c) == c \in {" ", "\t"}

\* the class \w of the re module
WordChars == Range(UpperCase) \cup Range(LowerCase) \cup Range(Digits) \cup {"_"}
IsWord(c) == c \in WordChars

\* str.strip()
strip(s) ==
    IF \A k \in 1..Len(s) : IsSpace(s[k]) THEN <<>>
    ELSE LET first == CHOOSE k \in 1..Len(s) :
                          /\ ~IsSpace(s[k])
                          /\ \A m \in 1..(k-1) : IsSpace(s[m])
             last  == CHOOSE k \in 1..Len(s) :
                          /\ ~IsSpace(s[k])
                          /\ \A m \in (k+1)..Len(s) : IsSpace(s[m])
         IN  SubSeq(s, first, last)

\* s.startswith(p)
startswith(s, p) == Len(p) <= Len(s) /\ SubSeq(s, 1, Len(p)) = p

\* p in s
contains(s, p) ==
    \E k \in 0..(Len(s) - Len(p)) : SubSeq(s, k + 1, k + Len(p)) = p

\* re.match(r'^\w+:', s)
MatchLabelDef(s) ==
    \E k \in 1..(Len(s) - 1) :
        /\ s[k + 1] = ":"
        /\ \A m \in 1..k : IsWord(s[m])

\* "{:<24}".format(s)
PadLeft24(s) == IF Len(s) < 24 THEN s \o [k \in 1..(24 - Len(s)) |-> " "] ELSE s

\* "0x{:02x}".format(b)
Hex02(b) == <<"0", "x", HexDigits[(b \div 16) + 1], HexDigits[(b % 16) + 1]>>

\* ", ".join("0x{:02x}".format(b) for b in chunk)
RECURSIVE HexJoin(_)
HexJoin(chunk) ==
    IF Len(chunk) = 0 THEN <<>>
    ELSE IF Len(chunk) = 1 THEN Hex02(chunk[1])
    ELSE Hex02(chunk[1]) \o <<",", " ">> \o HexJoin(Tail(chunk))

\* new_bytes[j:j + 16]
ChunkWidth == 16
Chunk_OneShort(data, j) == SubSeq(data, j + 1, Min(j + ChunkWidth - 1, Len(data)))
Chunk(data, j) == SubSeq(data, j + 1, Min(j + ChunkWidth, Len(data)))

(***************************************************************************)
(* Fixed texts of build_tool.py                                            *)
(***************************************************************************)
Colon == <<":">>
SpaceColon == <<" ", ":">>
LenSuffix == <<"_","l","e","n">>
EndSuffix == <<"_","e","n","d">>
EndColon == <<"_","e","n","d",":">>
DbWord == <<"d","b">>
DbSpace == <<"d","b"," ">>
DbHex == <<"d","b"," ","0","x">>
DotByte == <<".","b","y","t","e">>
DotAscii == <<".","a","s","c","i","i">>
DotSet == <<".","s","e","t"," ">>
DotEqu == <<".","e","q","u"," ">>
GasByteIndent == <<" "," "," "," ",".","b","y","t","e"," ">>
GasSetIndent == <<" "," "," "," ",".","s","e","t"," ">>
NasmDbIndent == [k \in 1..24 |-> " "] \o DbSpace
Spaces16 == [k \in 1..16 |-> " "]
Semicolon == <<";">>
SlashSlash == <<"/","/">>
NasmEqu == <<" ","e","q","u"," ","$"," ","-"," ">>
GasDot == <<",", " ", ".", " ", "-", " ">>

\* "{}_len equ $ - {}".format(label, label)
NasmLenLine(label) == label \o LenSuffix \o NasmEqu \o label
\* "    .set {}_len, . - {}".format(label, label)
GasSetLine(label) == GasSetIndent \o label \o LenSuffix \o GasDot \o label
\* ".equ {}_len, . - {}".format(label, label)
GasEquLine(label) == DotEqu \o label \o LenSuffix \o GasDot \o label

(***************************************************************************)
(* replace_label_content                                                   *)
(***************************************************************************)
\* is_label: does the stripped line start the target label
IsLabelLine(stripped, label, is_gas) ==
    IF is_gas
    THEN stripped = label \o Colon
    ELSE \/ startswith(stripped, label \o Colon)
         \/ startswith(stripped, label \o SpaceColon)

\* the label line and the new byte-emission lines
RECURSIVE EmitBytes(_, _, _, _)
EmitBytes(label, new_bytes, j, is_gas) ==
    IF j >= Len(new_bytes) THEN <<>>
    ELSE LET hexb == HexJoin(Chunk(new_bytes, j))
             line == IF is_gas THEN GasByteIndent \o hexb
                     ELSE IF j = 0
                          THEN PadLeft24(label \o Colon) \o DbSpace \o hexb
                          ELSE NasmDbIndent \o hexb
         IN  <<line>> \o EmitBytes(label, new_bytes, j + ChunkWidth, is_gas)

EmitBlock(label, new_bytes, is_gas) ==
    IF is_gas
    THEN <<label \o Colon>> \o EmitBytes(label, new_bytes, 0, TRUE)
    ELSE EmitBytes(label, new_bytes, 0, FALSE)

\* is the line one of the old content lines the scan steps over
IsOldContent(sl) ==
    LET sl_lower == lower(sl)
    IN  \/ startswith(sl_lower, DbSpace)
        \/ contains(sl_lower, DbHex)
        \/ startswith(sl_lower, DotByte)
        \/ startswith(sl_lower, DotAscii)
        \/ sl = <<>>
        \/ startswith(sl, Semicolon)
        \/ startswith(sl, SlashSlash)
        \/ startswith(sl, Spaces16)

\* the inner loop: from line i on, skip the old block.  Yields the index of
\* the first line left to the outer loop and the lines emitted meanwhile.
RECURSIVE SkipOld(_, _, _, _)
SkipOld(lines, i, label, is_gas) ==
    IF i > Len(lines) THEN [i |-> i, out |-> <<>>]
    ELSE
    LET sl == strip(lines[i])
        lookahead == IF i + 1 <= Len(lines) /\ contains(strip(lines[i + 1]), LenSuffix)
                     THEN TRUE ELSE FALSE
        skip == IF IsOldContent(sl)
                THEN SkipOld(lines, i + 1, label, is_gas)
                ELSE [i |-> i, out |-> <<>>]
    IN  IF is_gas
        THEN IF startswith(sl, DotSet \o label \o LenSuffix)
             THEN [i |-> i + 1, out |-> <<GasSetLine(label)>>]
             ELSE IF startswith(sl, DotEqu \o label \o LenSuffix)
             THEN [i |-> i + 1, out |-> <<GasEquLine(label)>>]
             ELSE IF sl = label \o EndColon
             THEN IF lookahead
                  THEN [i |-> i + 2, out |-> <<label \o EndColon, lines[i + 1]>>]
                  ELSE [i |-> i + 1, out |-> <<label \o EndColon>>]
             ELSE skip
        ELSE IF startswith(sl, label \o LenSuffix)
             THEN [i |-> i + 1, out |-> <<NasmLenLine(label)>>]
             ELSE IF startswith(sl, label \o EndSuffix)
             THEN IF lookahead
                  THEN [i |-> i + 2, out |-> <<NasmLenLine(label)>>]
                  ELSE [i |-> i + 1, out |-> <<>>]
             ELSE IF MatchLabelDef(sl) /\ ~contains(lower(sl), DbWord)
             THEN [i |-> i, out |-> <<>>]
             ELSE skip

\* line 299: if is_label and not replaced
SpliceHere_EveryOccurrence(is_label, replaced) == is_label
SpliceHere(is_label, replaced) == is_label /\ ~replaced

\* the outer loop over the lines
RECURSIVE ScanLines(_, _, _, _, _, _)
ScanLines(lines, i, replaced, label, new_bytes, is_gas) ==
    IF i > Len(lines) THEN <<>>
    ELSE IF SpliceHere(IsLabelLine(strip(lines[i]), label, is_gas), replaced)
         THEN LET old == SkipOld(lines, i + 1, label, is_gas)
              IN  EmitBlock(label, new_bytes, is_gas) \o old.out
                    \o ScanLines(lines, old.i, TRUE, label, new_bytes, is_gas)
         ELSE <<lines[i]>> \o ScanLines(lines, i + 1, replaced, label, new_bytes, is_gas)

replace_label_content(content, label, new_bytes, is_gas) ==
    ScanLines(content, 1, FALSE, label, new_bytes, is_gas)

(***************************************************************************)
(* parse_data_section and patch_source                                     *)
(***************************************************************************)
NasmStartMarker == <<";"," ","@","@","D","A","T","A","_","S","T","A","R","T","@","@">>
NasmEndMarker == <<";"," ","@","@","D","A","T","A","_","E","N","D","@","@">>
GasStartMarker == <<"/","/"," ","@","@","D","A","T","A","_","S","T","A","R","T","@","@">>
GasEndMarker == <<"/","/"," ","@","@","D","A","T","A","_","E","N","D","@","@">>
MARKER_NASM == <<NasmStartMarker, NasmEndMarker>>
MARKER_GAS == <<GasStartMarker, GasEndMarker>>

HelpWord == <<"h","e","l","p">>
VersionWord == <<"v","e","r","s","i","o","n">>
FlagWord == <<"f","l","a","g">>
OptWord == <<"o","p","t">>
DashWord == <<"d","a","s","h">>
TryWord == <<"t","r","y">>

\* marker in content
InText(text, marker) == \E k \in 1..Len(text) : contains(text[k], marker)

\* content.find(marker): the line of the first occurrence, 0 when absent
FindLine(text, marker) ==
    IF InText(text, marker)
    THEN CHOOSE k \in 1..Len(text) :
            /\ contains(text[k], marker)
            /\ \A m \in 1..(k - 1) : ~contains(text[m], marker)
    ELSE 0

\* content.find(marker): the column of the first occurrence in its line
FindColumn(line, marker) ==
    CHOOSE c \in 1..Len(line) :
        /\ SubSeq(line, c, c + Len(marker) - 1) = marker
        /\ \A b \in 1..(c - 1) : SubSeq(line, b, b + Len(marker) - 1) # marker

\* content.index("\n", start_idx) raises ValueError: no newline follows the
\* start marker
NoNewlineAfterStart(text, is_gas_) ==
    LET markers == IF is_gas_ THEN MARKER_GAS ELSE MARKER_NASM
    IN  /\ InText(text, markers[1])
        /\ InText(text, markers[2])
        /\ FindLine(text, markers[1]) = Len(text)

\* content[start_line_end:end_idx] as lines: the lines after the line of the
\* start marker, up to the end marker
Section(text, is_gas_) ==
    LET markers == IF is_gas_ THEN MARKER_GAS ELSE MARKER_NASM
        sline == FindLine(text, markers[1])
        eline == FindLine(text, markers[2])
    IN  IF eline <= sline THEN <<>>
        ELSE SubSeq(text, sline + 1, eline - 1)
               \o <<SubSeq(text[eline], 1, FindColumn(text[eline], markers[2]) - 1)>>

\* m.group(1) of label_re on one line of the section, <<>> when no match
SectionLabel(line, is_gas_) ==
    IF MatchLabelDef(line)
    THEN LET k == CHOOSE k \in 1..(Len(line) - 1) :
                     line[k + 1] = ":" /\ \A m \in 1..k : IsWord(line[m])
         IN  IF is_gas_ /\ Len(line) # k + 1 THEN <<>> ELSE SubSeq(line, 1, k)
    ELSE <<>>

\* the test of the help branch on the lowercased name
IsHelpName(nl) ==
    /\ contains(nl, HelpWord)
    /\ ~contains(nl, FlagWord) /\ ~contains(nl, OptWord)
    /\ ~contains(nl, DashWord) /\ ~contains(nl, TryWord)
    /\ ~contains(nl, LenSuffix) /\ ~contains(nl, EndSuffix)

\* the test of the version branch on the lowercased name
IsVersionName(nl) ==
    /\ contains(nl, VersionWord)
    /\ ~contains(nl, FlagWord) /\ ~contains(nl, OptWord)
    /\ ~contains(nl, DashWord)
    /\ ~contains(nl, LenSuffix) /\ ~contains(nl, EndSuffix)

RECURSIVE ClassifyLabels(_, _, _, _, _)
\* the loop over the matches of label_re; <<>> stands for None
ClassifyLabels(section, k, is_gas_, help_label, version_label) ==
    IF k > Len(section) THEN [help |-> help_label, version |-> version_label]
    ELSE LET name == SectionLabel(section[k], is_gas_)
             nl == lower(name)
         IN  IF name = <<>>
             THEN ClassifyLabels(section, k + 1, is_gas_, help_label, version_label)
             ELSE IF IsHelpName(nl)
             THEN ClassifyLabels(section, k + 1, is_gas_,
                     IF help_label = <<>> THEN name ELSE help_label, version_label)
             ELSE IF IsVersionName(nl)
             THEN ClassifyLabels(section, k + 1, is_gas_, help_label,
                     IF version_label = <<>> THEN name ELSE version_label)
             ELSE ClassifyLabels(section, k + 1, is_gas_, help_label, version_label)

parse_data_section(text, is_gas_) ==
    ClassifyLabels(Section(text, is_gas_), 1, is_gas_, <<>>, <<>>)

\* patch_source without the test for the markers, splicing the help text at
\* the label named help wherever it stands
patch_source_Unmarked(text, help, version, is_gas_, skip_help) ==
    replace_label_content(text, HelpWord, help, is_gas_)
\* patch_source on the text read from source_path
patch_source(text, help, version, is_gas_, skip_help) ==
    LET markers == IF is_gas_ THEN MARKER_GAS ELSE MARKER_NASM
        labels == parse_data_section(text, is_gas_)
        text1 == IF labels.help # <<>> /\ help # <<>> /\ ~skip_help
                 THEN replace_label_content(text, labels.help, help, is_gas_)
                 ELSE text
        text2 == IF labels.version # <<>> /\ version # <<>>
                 THEN replace_label_content(text1, labels.version, version, is_gas_)
                 ELSE text1
    IN  IF ~InText(text, markers[1]) \/ ~InText(text, markers[2])
        THEN text
        ELSE text2

(***************************************************************************)
(* Inputs: source lines in the two dialects, labels and payloads           *)
(***************************************************************************)
HelpLabel == <<"h","e","l","p">>
VersionLabel == <<"v","e","r","s","i","o","n">>

NasmHelpDb == <<"h","e","l","p",":"," ","d","b"," ","0","x","4","1">>
NasmDb == <<" "," ","d","b"," ","0","x","4","2">>
Blank == <<>>
NasmComment == <<";"," ","c">>
NasmDw == <<"d","w"," ","7">>
NasmHelpLen == <<"h","e","l","p","_","l","e","n"," ","e","q","u"," ","$"," ","-"," ","h","e","l","p">>
NasmHelpLenStale == <<"h","e","l","p","_","l","e","n"," ","e","q","u"," ","9">>
HelpEnd == <<"h","e","l","p","_","e","n","d",":">>
NasmVersionDb == <<"v","e","r","s","i","o","n",":"," ","d","b"," ","0","x","4","3">>
VersionBare == <<"v","e","r","s","i","o","n",":">>
NasmVersionLen ==
    <<"v","e","r","s","i","o","n","_","l","e","n"," ","e","q","u"," ","9">>

GasHelp == <<"h","e","l","p",":">>
GasByte == <<" "," "," "," ",".","b","y","t","e"," ","0","x","4","1">>
GasComment == <<"/","/"," ","c">>
GasAsciz == <<".","a","s","c","i","z"," ","\"","a","\"">>
GasHelpSet == <<" "," "," "," ",".","s","e","t"," ","h","e","l","p","_","l","e","n",","," ","."," ","-"," ","h","e","l","p">>
GasHelpSetStale == <<" "," "," "," ",".","s","e","t"," ","h","e","l","p","_","l","e","n",","," ","9">>
\* the length directive of another label
GasVersionSet ==
    <<" "," "," "," ",".","s","e","t"," ","v","e","r","s","i","o","n","_","l",
      "e","n",","," ","9">>
GasVersionByte == <<"v","e","r","s","i","o","n",":"," ",".","b","y","t","e"," ","0","x","4","3">>

NasmLines == {NasmHelpDb, NasmDb, Blank, NasmComment, NasmDw, NasmHelpLen,
              NasmHelpLenStale, HelpEnd, NasmVersionDb, VersionBare, NasmVersionLen}
GasLines == {GasHelp, GasByte, Blank, GasComment, GasAsciz, GasHelpSet,
             GasHelpSetStale, HelpEnd, GasVersionByte, VersionBare, GasVersionSet}
SourceLines(gas) == IF gas THEN GasLines ELSE NasmLines

\* the source texts of at most n lines of a dialect
Texts(gas, n) == UNION {[1..k -> SourceLines(gas)] : k \in 1..n}

\* payloads: the empty one, one byte, two bytes
SmallPayloads == {<<>>, <<88>>, <<88, 10>>}

(***************************************************************************)
(* State                                                                   *)
(***************************************************************************)
VARIABLES
    pc,          \* position of the run
    content,     \* replace_label_content / patch_source: the source text
    label,       \* replace_label_content: the target label
    new_bytes,   \* replace_label_content: the payload (data["help"] of patch_source)
    is_gas,      \* dialect flag
    result,      \* the returned text
    again,       \* the text returned when the function is applied a second time
    ver_bytes,   \* patch_source: data["version"]
    skip_help_patch,  \* patch_source: the help_split flag of the tool
    script,      \* which script runs: "build_tool", "yes" or "none"
    tools,       \* main: tools_to_build, the config of each
    args,        \* main: the command-line flags
    idx,         \* main: position of the for loop in tools_to_build
    data,        \* main: the detected data of the current tool
    patched,     \* build_*: the text patch_source returned
    asm_input,   \* build_*: the path handed to the assembler
    tmp_name,    \* build_*: the name of the temporary file or directory
    mod_i,       \* build_nasm_modular: position of the loop over the modules
    tmp_asm,     \* yes/build.py main: the temporary copy, NoPath for None
    obj,         \* yes/build.py builders: the temporary object file
    files,       \* the file system: path -> existence, text, executable bit
    wrote,       \* paths the run opened for writing, handed out as output, or unlinked
    ntmp,        \* number of temporary names handed out so far
    exc,         \* the exception in flight
    total_ok,    \* main: total_ok
    total_fail,  \* main: total_fail
    exit_status, \* the exit status of the process, -1 while it runs
    calls,       \* external tools invoked for the tool being built, with return codes
    failed,      \* tools whose assembler or linker returned non-zero
    built,       \* tools that were built and went through the verify step
    mismatched,  \* tools for which verify_tool returned False
    summary,     \* main: the results line was printed
    gnu_bin,     \* detect_tool_data: the path of the reference binary, <<>> for None
    probes,      \* detect_tool_data: what each of the four invocations does
    detected,    \* detect_tool_data: the returned data; the data of verify_tool
    config,      \* verify_tool: the flags of TOOLS[tool_name]
    binary_path, \* verify_tool: the path of the built binary
    our,         \* verify_tool: what the built binary prints
    verify_ok,   \* verify_tool: the returned verdict (ok)
    harness,     \* security_tests.py: which harness runs, "none" outside
    test_count,  \* security_tests.py: test_count
    pass_count,  \* security_tests.py: pass_count
    skip_count,  \* security_tests.py: skip_count
    reports,     \* number of passing, failing and skipped reports made so far
    shown,       \* print_summary: the figures of the RESULTS line
    bss_lines,   \* build_unified.py: the lines of the .bss section
    bss_pos,     \* build_unified.py: position of the loop over bss_lines
    bss_entries, \* build_unified.py: bss_entries, (name, offset, size) each
    total_bss,   \* build_unified.py: total_bss
    bss_size     \* build_unified.py: the value in the emitted bss_size line, -1 before

textIn == <<content, label, new_bytes, is_gas, ver_bytes, skip_help_patch>>
textVars == <<textIn, result, again>>
buildLocals == <<data, patched, asm_input, tmp_name, mod_i>>
yesLocals == <<tmp_asm, obj>>
counters == <<total_ok, total_fail, built, mismatched, summary>>
probeVars == <<gnu_bin, probes, detected, config, binary_path, our, verify_ok>>
pipeVars == <<script, tools, args, idx, buildLocals, yesLocals, files, wrote, ntmp, exc,
              counters, exit_status, calls, failed>>
harnessVars == <<harness, test_count, pass_count, skip_count, reports, shown>>
bssVars == <<bss_lines, bss_pos, bss_entries, total_bss, bss_size>>
vars == <<pc, textVars, pipeVars, probeVars, harnessVars, bssVars>>

(***************************************************************************)
(* Paths, file contents, detected data                                     *)
(***************************************************************************)
NoPath == <<"none", 0>>
Src(k) == <<"src", k>>
Out(k) == <<"out", k>>
Tmp(n) == <<"tmp", n>>
Dir(n) == <<"dir", n>>
InDir(d, name) == <<d[1], d[2], name>>

\* the objects of the modules of a nasm_modular tool, in the order of
\* config["modules"]
ModuleObjs == <<"io.o", "str.o">>
DirNames == {"main.asm", "main.o", "output.o"} \cup Range(ModuleObjs)

TmpIds == 1..(2 * MaxTools)
AllPaths ==
    {Src(k) : k \in 1..MaxTools} \cup {Out(k) : k \in 1..MaxTools}
        \cup {Tmp(n) : n \in TmpIds} \cup {Dir(n) : n \in TmpIds}
        \cup {InDir(Dir(n), name) : n \in TmpIds, name \in DirNames}

Absent == [exists |-> FALSE, text |-> <<>>, exec |-> FALSE]
File(text) == [exists |-> TRUE, text |-> text, exec |-> FALSE]
ImageText == << <<"E","L","F">> >>
ObjText == << <<"o","b","j">> >>

\* the authored source of a tool
NasmSource == <<NasmStartMarker, NasmHelpDb, NasmHelpLen, NasmVersionDb, NasmEndMarker>>
GasSource == <<GasStartMarker, GasHelp, GasByte, GasHelpSet, GasEndMarker>>

BuildTypes == {"nasm_unified", "nasm_subdir", "nasm_modular", "gas_unified"}
\* the type tags a config may carry: the four build_tool knows and another
TypeTags == BuildTypes \cup {"unknown"}
IsGasType(t) == t = "gas_unified"
\* the sources of a batch as authored, or having lost their start or their
\* end marker
SourceVariants == {"marked", "no_start", "no_end"}
SourceOf(t, v) ==
    LET s == IF IsGasType(t) THEN GasSource ELSE NasmSource
    IN  IF v = "no_start" THEN Tail(s)
        ELSE IF v = "no_end" THEN SubSeq(s, 1, Len(s) - 1)
        ELSE s

\* None, and a dict as detect_tool_data returns it
NoData == [found |-> FALSE, help |-> <<>>, version |-> <<>>,
           err_unrec |-> <<>>, err_inval |-> <<>>, err_suffix |-> <<>>]
SomeData == [found |-> TRUE, help |-> <<88, 10>>, version |-> <<86>>,
             err_unrec |-> <<121, 58>>, err_inval |-> <<121>>, err_suffix |-> <<39, 10>>]

NoFlags == [no_patch |-> FALSE, no_verify |-> FALSE, detect |-> FALSE]

\* the text specifications leave the pipeline idle
IdlePipeline ==
    /\ script = "none" /\ tools = <<>> /\ args = NoFlags /\ idx = 0
    /\ data = NoData /\ patched = <<>> /\ asm_input = NoPath /\ tmp_name = NoPath
    /\ mod_i = 0 /\ tmp_asm = NoPath /\ obj = NoPath
    /\ files = [p \in AllPaths |-> Absent] /\ wrote = {} /\ ntmp = 0
    /\ exc = "none" /\ total_ok = 0 /\ total_fail = 0 /\ exit_status = -1
    /\ calls = <<>> /\ failed = {} /\ built = {} /\ mismatched = {}
    /\ summary = FALSE

\* the specifications of the other parts leave detect_tool_data and
\* verify_tool idle
IdleProbe ==
    /\ gnu_bin = <<>> /\ probes = <<>> /\ detected = <<>>
    /\ config = <<>> /\ binary_path = <<>> /\ our = <<>> /\ verify_ok = FALSE

\* the pipeline specifications leave the text variables idle
\* no security test harness runs
NoFigures == [passed |-> 0, total |-> 0, failed |-> 0, skipped |-> 0]
NoReports == [pass |-> 0, fail |-> 0, skip |-> 0]
IdleHarness ==
    /\ harness = "none" /\ test_count = 0 /\ pass_count = 0 /\ skip_count = 0
    /\ reports = NoReports /\ shown = NoFigures

\* build_unified.py does not run
IdleBss ==
    /\ bss_lines = <<>> /\ bss_pos = 0 /\ bss_entries = <<>> /\ total_bss = 0
    /\ bss_size = -1

IdleText ==
    /\ content = <<>> /\ label = <<>> /\ new_bytes = <<>> /\ is_gas = FALSE
    /\ result = <<>> /\ again = <<>> /\ ver_bytes = <<>> /\ skip_help_patch = FALSE

(***************************************************************************)
(* The splicer applied to one input                                        *)
(***************************************************************************)
InitSplice ==
    /\ pc = "splice"
    /\ is_gas \in BOOLEAN
    /\ content \in Texts(is_gas, MaxLines)
    /\ label = HelpLabel
    /\ new_bytes \in SmallPayloads
    /\ result = <<>> /\ again = <<>>
    /\ ver_bytes = <<>>
    /\ skip_help_patch = FALSE
    /\ IdlePipeline
    /\ IdleProbe
    /\ IdleHarness
    /\ IdleBss

Splice ==
    /\ pc = "splice"
    /\ result' = replace_label_content(content, label, new_bytes, is_gas)
    /\ pc' = "spliced"
    /\ UNCHANGED <<textIn, again, pipeVars, probeVars, harnessVars, bssVars>>

\* the splicer applied to its own output with the same label and payload
SpliceAgain ==
    /\ pc = "spliced"
    /\ again' = replace_label_content(result, label, new_bytes, is_gas)
    /\ pc' = "respliced"
    /\ UNCHANGED <<textIn, result, pipeVars, probeVars, harnessVars, bssVars>>

NextSplice == Splice \/ SpliceAgain

SpecSplice == InitSplice /\ [][NextSplice]_vars

(***************************************************************************)
(* The splicer applied to payloads of every length up to MaxPayloadLen     *)
(***************************************************************************)
\* the payload of n bytes seed, seed + step, seed + 2 * step, ... (mod 256)
Payload(n, seed, step) == [k \in 1..n |-> (seed + (k - 1) * step) % 256]

LongPayloads ==
    {Payload(n, 0, 1) : n \in 0..MaxPayloadLen}
        \cup {Payload(n, 250, 7) : n \in 0..MaxPayloadLen}

\* the definition line of the help label followed by at most MaxEncodeLines lines
EncodeTexts(gas) ==
    {<<IF gas THEN GasHelp ELSE NasmHelpDb>> \o body :
        body \in UNION {[1..k -> SourceLines(gas)] : k \in 0..MaxEncodeLines}}

InitEncode ==
    /\ pc = "splice"
    /\ is_gas \in BOOLEAN
    /\ content \in EncodeTexts(is_gas)
    /\ label = HelpLabel
    /\ new_bytes \in LongPayloads
    /\ result = <<>> /\ again = <<>>
    /\ ver_bytes = <<>>
    /\ skip_help_patch = FALSE
    /\ IdlePipeline
    /\ IdleProbe
    /\ IdleHarness
    /\ IdleBss

NextEncode == Splice

SpecEncode == InitEncode /\ [][NextEncode]_vars

(***************************************************************************)
(* patch_source applied to one source text                                 *)
(***************************************************************************)
\* texts of at most MaxPatchLines lines wrapped in the markers of the
\* dialect: both markers, the start or the end marker missing, or the two
\* markers in the wrong order
MarkedTexts(gas) ==
    LET m == IF gas THEN MARKER_GAS ELSE MARKER_NASM
        bodies == UNION {[1..k -> SourceLines(gas)] : k \in 1..MaxPatchLines}
    IN  {<<m[1]>> \o b \o <<m[2]>> : b \in bodies}
          \cup {b \o <<m[2]>> : b \in bodies}
          \cup {<<m[1]>> \o b : b \in bodies}
          \cup {<<m[2]>> \o b \o <<m[1]>> : b \in bodies}

InitPatch ==
    /\ pc = "patch"
    /\ is_gas \in BOOLEAN
    /\ content \in MarkedTexts(is_gas)
    /\ label = <<>>
    /\ new_bytes \in {<<>>, <<88>>}
    /\ ver_bytes \in {<<>>, <<86>>}
    /\ skip_help_patch \in BOOLEAN
    /\ result = <<>> /\ again = <<>>
    /\ IdlePipeline
    /\ IdleProbe
    /\ IdleHarness
    /\ IdleBss

\* patch_source returns the patched text
Patch ==
    /\ pc = "patch"
    /\ ~NoNewlineAfterStart(content, is_gas)
    /\ result' = patch_source(content, new_bytes, ver_bytes, is_gas, skip_help_patch)
    /\ pc' = "patched"
    /\ UNCHANGED <<textIn, again, pipeVars, probeVars, harnessVars, bssVars>>

\* patch_source leaves with the ValueError of content.index
PatchRaises ==
    /\ pc = "patch"
    /\ NoNewlineAfterStart(content, is_gas)
    /\ pc' = "raised"
    /\ UNCHANGED <<result, again, textIn, pipeVars, probeVars, harnessVars, bssVars>>

\* the text of source_path after a call of patch_source: the file is opened
\* for reading only and the patched text is returned, not written
SourceAfterPatch_InPlace(text, returned) == returned
SourceAfterPatch(text, returned) == text

\* patch_source called a second time on the same path with the same data
PatchAgain ==
    /\ pc = "patched"
    /\ again' = patch_source(SourceAfterPatch(content, result), new_bytes, ver_bytes,
                             is_gas, skip_help_patch)
    /\ pc' = "repatched"
    /\ UNCHANGED <<textIn, result, pipeVars, probeVars, harnessVars, bssVars>>

NextPatch == Patch \/ PatchRaises \/ PatchAgain

SpecPatch == InitPatch /\ [][NextPatch]_vars

(***************************************************************************)
(* parse_data_section applied to one input                                 *)
(***************************************************************************)
HelpDef == <<"h","e","l","p",":">>
VersionDef == <<"v","e","r","s","i","o","n",":">>
TryHelpDef == <<"t","r","y","_","h","e","l","p",":">>
TryVersionDef == <<"t","r","y","_","v","e","r","s","i","o","n",":">>
VersionEndDef == <<"V","e","r","s","i","o","n","_","e","n","d",":">>
MsgDef == <<"m","s","g",":">>
LabelDefs == {HelpDef, VersionDef, TryHelpDef, TryVersionDef, VersionEndDef, MsgDef}

\* label definitions between the markers of the dialect, with or without a
\* label definition before the start marker and after the end marker
LabelledTexts(gas) ==
    LET m == IF gas THEN MARKER_GAS ELSE MARKER_NASM
        bodies == UNION {[1..k -> LabelDefs] : k \in 1..MaxLines}
        outside == {<<>>, <<HelpDef>>, <<VersionDef>>}
    IN  {pre \o <<m[1]>> \o b \o <<m[2]>> \o post :
            pre \in outside, b \in bodies, post \in outside}

InitParse ==
    /\ pc = "parse"
    /\ is_gas \in BOOLEAN
    /\ content \in LabelledTexts(is_gas)
    /\ label = <<>> /\ new_bytes = <<>> /\ ver_bytes = <<>>
    /\ skip_help_patch = FALSE
    /\ result = <<>> /\ again = <<>>
    /\ IdlePipeline
    /\ IdleProbe
    /\ IdleHarness
    /\ IdleBss

\* parse_data_section returns (help_label, version_label)
Parse ==
    /\ pc = "parse"
    /\ result' = LET labels == parse_data_section(content, is_gas)
                 IN  <<labels.help, labels.version>>
    /\ pc' = "parsed"
    /\ UNCHANGED <<textIn, again, pipeVars, probeVars, harnessVars, bssVars>>

NextParse == Parse

SpecParse == InitParse /\ [][NextParse]_vars

(***************************************************************************)
(* build_tool.py: main, build_tool and the three build strategies          *)
(***************************************************************************)
NumModules == Len(ModuleObjs)

\* the file system after writing text to a path / removing a path
WriteFile(fs, path, text) == [fs EXCEPT ![path] = File(text)]
Unlink(fs, path) == [fs EXCEPT ![path] = Absent]
\* TemporaryDirectory.__exit__: the directory and everything in it goes
RemoveDir(fs, d) ==
    [p \in AllPaths |-> IF p = d \/ \E name \in DirNames : p = InDir(d, name)
                        THEN Absent ELSE fs[p]]

\* the test "if data:" of lines 430, 458 and 489
NeedsPatch_Always(d) == TRUE
NeedsPatch(d) == d.found

\* the test of the finally clauses: data and os.path.exists(asm_input)
CleanupNeeded_NoDataTest(d, path, fs) == fs[path].exists
CleanupNeeded(d, path, fs) == d.found /\ fs[path].exists

\* the for loop of main moves to the next tool, or leaves the loop
NextTool ==
    /\ idx' = idx + 1
    /\ pc' = IF idx + 1 <= Len(tools) THEN "detect" ELSE "summary"

\* an exception leaves the current function towards the handler at pc h
Raise(e, h) == exc' = e /\ pc' = h

InitBuildTool ==
    /\ script = "build_tool"
    /\ tools \in UNION {[1..k -> [type : TypeTags]] : k \in 1..MaxTools}
    /\ args \in [no_patch : BOOLEAN, no_verify : BOOLEAN, detect : BOOLEAN]
    /\ idx = 1
    /\ pc = "detect"
    /\ data = NoData /\ patched = <<>> /\ asm_input = NoPath /\ tmp_name = NoPath
    /\ mod_i = 0 /\ tmp_asm = NoPath /\ obj = NoPath
    /\ \E v \in SourceVariants :
          files = [p \in AllPaths |->
                     IF \E k \in 1..Len(tools) : p = Src(k)
                     THEN File(SourceOf(tools[p[2]].type, v)) ELSE Absent]
    /\ wrote = {} /\ ntmp = 0 /\ exc = "none"
    /\ total_ok = 0 /\ total_fail = 0 /\ exit_status = -1
    /\ calls = <<>> /\ failed = {} /\ built = {} /\ mismatched = {}
    /\ summary = FALSE
    /\ IdleText
    /\ IdleProbe
    /\ IdleHarness
    /\ IdleBss

\* main, lines 641-657: detect the data of the tool; with --detect go on to
\* the next tool
Detect ==
    /\ script = "build_tool" /\ pc = "detect"
    /\ \E found \in BOOLEAN :
          data' = IF ~args.no_patch /\ found THEN SomeData ELSE NoData
    /\ patched' = <<>> /\ asm_input' = NoPath /\ tmp_name' = NoPath /\ mod_i' = 0
    /\ calls' = <<>>
    /\ IF args.detect THEN NextTool ELSE pc' = "build" /\ idx' = idx
    /\ UNCHANGED <<textVars, probeVars, harnessVars, bssVars, yesLocals, script, tools, args, files, wrote, ntmp, exc,
                   counters, exit_status, failed>>

\* the if / elif chain of lines 519-528: the first step of the strategy;
\* the else branch leaves with sys.exit(1)
Strategy_GasByDefault(build_type) ==
    IF build_type \in {"nasm_unified", "nasm_subdir"} THEN "flat_patch"
    ELSE IF build_type = "nasm_modular" THEN "mod_mkdtemp"
    ELSE "gas_patch"
Strategy(build_type) ==
    IF build_type \in {"nasm_unified", "nasm_subdir"} THEN "flat_patch"
    ELSE IF build_type = "nasm_modular" THEN "mod_mkdtemp"
    ELSE IF build_type = "gas_unified" THEN "gas_patch"
    ELSE "uncaught"

\* build_tool, lines 511-531: choose the strategy by config["type"]
BuildTool ==
    /\ script = "build_tool" /\ pc = "build"
    /\ pc' = Strategy(tools[idx].type)
    /\ exc' = IF pc' = "uncaught" THEN "SystemExit" ELSE exc
    /\ UNCHANGED <<textVars, probeVars, harnessVars, bssVars, yesLocals, script, tools, args, idx, buildLocals,
                   files, wrote, ntmp, counters, exit_status, calls, failed>>

\* lines 430-431 / 489-490 and 436-437 / 495-496: patch_source when there is
\* data (reading the source may fail), else assemble the source itself
PatchStep(here, onData, onNoData) ==
    /\ script = "build_tool" /\ pc = here
    /\ IF NeedsPatch(data)
       THEN \E ok \in BOOLEAN :
               IF ok
               THEN /\ patched' = patch_source(files[Src(idx)].text, data.help,
                                      data.version, IsGasType(tools[idx].type), FALSE)
                    /\ pc' = onData
                    /\ UNCHANGED <<asm_input, exc>>
               ELSE /\ Raise("OSError", "uncaught")
                    /\ UNCHANGED <<patched, asm_input>>
       ELSE /\ asm_input' = Src(idx)
            /\ pc' = onNoData
            /\ UNCHANGED <<patched, exc>>
    /\ UNCHANGED <<textVars, probeVars, harnessVars, bssVars, yesLocals, script, tools, args, idx, data, tmp_name, mod_i, files,
                   wrote, ntmp, counters, exit_status, calls, failed>>

\* lines 432 / 491: tempfile.NamedTemporaryFile(delete=False, mode="w")
CreateStep(here, next) ==
    /\ script = "build_tool" /\ pc = here
    /\ \E ok \in BOOLEAN :
          IF ok
          THEN /\ ntmp' = ntmp + 1
               /\ tmp_name' = Tmp(ntmp + 1)
               /\ files' = WriteFile(files, Tmp(ntmp + 1), <<>>)
               /\ wrote' = wrote \cup {Tmp(ntmp + 1)}
               /\ pc' = next
               /\ UNCHANGED exc
          ELSE /\ Raise("OSError", "uncaught")
               /\ UNCHANGED <<ntmp, tmp_name, files, wrote>>
    /\ UNCHANGED <<textVars, probeVars, harnessVars, bssVars, yesLocals, script, tools, args, idx, data, patched, asm_input, mod_i,
                   counters, exit_status, calls, failed>>

\* lines 433 / 492: tmp.write(patched)
WriteStep(here, next) ==
    /\ script = "build_tool" /\ pc = here
    /\ \E ok \in BOOLEAN :
          IF ok
          THEN /\ files' = WriteFile(files, tmp_name, patched)
               /\ pc' = next
               /\ UNCHANGED exc
          ELSE /\ Raise("OSError", "uncaught")
               /\ UNCHANGED files
    /\ UNCHANGED <<textVars, probeVars, harnessVars, bssVars, yesLocals, script, tools, args, idx, buildLocals, wrote, ntmp,
                   counters, exit_status, calls, failed>>

\* lines 434-435 / 493-494: tmp.close(); asm_input = tmp.name
CloseStep(here, next) ==
    /\ script = "build_tool" /\ pc = here
    /\ \E ok \in BOOLEAN :
          IF ok
          THEN /\ asm_input' = tmp_name
               /\ pc' = next
               /\ UNCHANGED exc
          ELSE /\ Raise("OSError", "uncaught")
               /\ UNCHANGED asm_input
    /\ UNCHANGED <<textVars, probeVars, harnessVars, bssVars, yesLocals, script, tools, args, idx, data, patched, tmp_name, mod_i,
                   files, wrote, ntmp, counters, exit_status, calls, failed>>

\* subprocess.run without a timeout: the child returns 0, returns non-zero,
\* or never exits, and then the call never returns
NoReturn == -1
ReturnCodes == {0, 1, NoReturn}

\* run_cmd with check=False: the return code is not looked at
RunCmd_Unchecked(here, prog, out, outText, next, handler) ==
    /\ script = "build_tool" /\ pc = here
    /\ \E rc \in ReturnCodes :
          /\ calls' = Append(calls, <<prog, rc>>)
          /\ IF rc = 0
             THEN /\ files' = WriteFile(files, out, outText)
                  /\ wrote' = wrote \cup {out}
                  /\ pc' = next
                  /\ UNCHANGED <<exc, failed>>
             ELSE IF rc = NoReturn
             THEN /\ pc' = "blocked"
                  /\ UNCHANGED <<exc, failed, files, wrote>>
             ELSE /\ pc' = next
                  /\ failed' = failed \cup {idx}
                  /\ UNCHANGED <<exc, files, wrote>>
    /\ UNCHANGED <<textVars, probeVars, harnessVars, bssVars, yesLocals, script, tools, args, idx, data, patched, asm_input,
                   tmp_name, ntmp, counters, exit_status>>

\* run_cmd, lines 89-97: run an external tool that writes out; a non-zero
\* return code ends in sys.exit(1)
RunCmd(here, prog, out, outText, next, handler) ==
    /\ script = "build_tool" /\ pc = here
    /\ \E rc \in ReturnCodes :
          /\ calls' = Append(calls, <<prog, rc>>)
          /\ IF rc = 0
             THEN /\ files' = WriteFile(files, out, outText)
                  /\ wrote' = wrote \cup {out}
                  /\ pc' = next
                  /\ UNCHANGED <<exc, failed>>
             ELSE IF rc = NoReturn
             THEN /\ pc' = "blocked"
                  /\ UNCHANGED <<exc, failed, files, wrote>>
             ELSE /\ Raise("SystemExit", handler)
                  /\ failed' = failed \cup {idx}
                  /\ UNCHANGED <<files, wrote>>
    /\ UNCHANGED <<textVars, probeVars, harnessVars, bssVars, yesLocals, script, tools, args, idx, data, patched, asm_input,
                   tmp_name, ntmp, counters, exit_status>>

\* lines 441-443 / 482-484 / 503-505: os.chmod(output_path, 0o755)
ChmodStep(here, next) ==
    /\ script = "build_tool" /\ pc = here
    /\ files' = [files EXCEPT ![Out(idx)].exec = TRUE]
    /\ wrote' = wrote \cup {Out(idx)}
    /\ pc' = next
    /\ UNCHANGED <<textVars, probeVars, harnessVars, bssVars, yesLocals, script, tools, args, idx, buildLocals, ntmp, exc,
                   counters, exit_status, calls, failed>>

\* lines 444-446 / 506-508: the finally clause removes the temporary file
FinallyStep(here, next) ==
    /\ script = "build_tool" /\ pc = here
    /\ IF CleanupNeeded(data, asm_input, files)
       THEN /\ files' = Unlink(files, asm_input)
            /\ wrote' = wrote \cup {asm_input}
       ELSE UNCHANGED <<files, wrote>>
    /\ pc' = next
    /\ UNCHANGED <<textVars, probeVars, harnessVars, bssVars, yesLocals, script, tools, args, idx, buildLocals, ntmp, exc,
                   counters, exit_status, calls, failed>>

\* build_nasm_flat, lines 428-446
FlatPatch == PatchStep("flat_patch", "flat_create", "flat_nasm")
FlatCreate == CreateStep("flat_create", "flat_write")
FlatWrite == WriteStep("flat_write", "flat_close")
FlatClose == CloseStep("flat_close", "flat_nasm")
FlatNasm ==
    /\ RunCmd("flat_nasm", "nasm", Out(idx), ImageText, "flat_chmod", "flat_finally")
    /\ UNCHANGED mod_i
FlatChmod == ChmodStep("flat_chmod", "flat_finally")
FlatFinally == FinallyStep("flat_finally", IF exc = "none" THEN "verify" ELSE "uncaught")

\* build_gas, lines 487-508
GasPatch == PatchStep("gas_patch", "gas_create", "gas_mkdtemp")
GasCreate == CreateStep("gas_create", "gas_write")
GasWrite == WriteStep("gas_write", "gas_close")
GasClose == CloseStep("gas_close", "gas_mkdtemp")
\* line 498: with tempfile.TemporaryDirectory() as tmpdir
GasMkdtemp ==
    /\ script = "build_tool" /\ pc = "gas_mkdtemp"
    /\ \E ok \in BOOLEAN :
          IF ok
          THEN /\ ntmp' = ntmp + 1
               /\ tmp_name' = Dir(ntmp + 1)
               /\ files' = WriteFile(files, Dir(ntmp + 1), <<>>)
               /\ wrote' = wrote \cup {Dir(ntmp + 1)}
               /\ pc' = "gas_as"
               /\ UNCHANGED exc
          ELSE /\ Raise("OSError", "uncaught")
               /\ UNCHANGED <<ntmp, tmp_name, files, wrote>>
    /\ UNCHANGED <<textVars, probeVars, harnessVars, bssVars, yesLocals, script, tools, args, idx, data, patched, asm_input, mod_i,
                   counters, exit_status, calls, failed>>
GasAs ==
    /\ RunCmd("gas_as", "as", InDir(tmp_name, "output.o"), ObjText, "gas_ld", "gas_finally")
    /\ UNCHANGED mod_i
GasLd ==
    /\ RunCmd("gas_ld", "ld", Out(idx), ImageText, "gas_chmod", "gas_finally")
    /\ UNCHANGED mod_i
GasChmod == ChmodStep("gas_chmod", "gas_finally")
GasFinally == FinallyStep("gas_finally", "gas_cleanup")
\* the end of the with block of line 498
GasCleanup ==
    /\ script = "build_tool" /\ pc = "gas_cleanup"
    /\ files' = RemoveDir(files, tmp_name)
    /\ pc' = IF exc = "none" THEN "verify" ELSE "uncaught"
    /\ UNCHANGED <<textVars, probeVars, harnessVars, bssVars, yesLocals, script, tools, args, idx, buildLocals, wrote, ntmp, exc,
                   counters, exit_status, calls, failed>>

\* build_nasm_modular, lines 449-484
\* line 456: with tempfile.TemporaryDirectory() as tmpdir
ModMkdtemp ==
    /\ script = "build_tool" /\ pc = "mod_mkdtemp"
    /\ \E ok \in BOOLEAN :
          IF ok
          THEN /\ ntmp' = ntmp + 1
               /\ tmp_name' = Dir(ntmp + 1)
               /\ files' = WriteFile(files, Dir(ntmp + 1), <<>>)
               /\ wrote' = wrote \cup {Dir(ntmp + 1)}
               /\ pc' = "mod_patch"
               /\ UNCHANGED exc
          ELSE /\ Raise("OSError", "uncaught")
               /\ UNCHANGED <<ntmp, tmp_name, files, wrote>>
    /\ UNCHANGED <<textVars, probeVars, harnessVars, bssVars, yesLocals, script, tools, args, idx, data, patched, asm_input, mod_i,
                   counters, exit_status, calls, failed>>
\* lines 458-463: patch the main source into tmpdir/main.asm
ModPatch ==
    /\ script = "build_tool" /\ pc = "mod_patch"
    /\ IF NeedsPatch(data)
       THEN \E ok \in BOOLEAN :
               IF ok
               THEN /\ patched' = patch_source(files[Src(idx)].text, data.help,
                                      data.version, FALSE, FALSE)
                    /\ files' = WriteFile(files, InDir(tmp_name, "main.asm"), patched')
                    /\ wrote' = wrote \cup {InDir(tmp_name, "main.asm")}
                    /\ asm_input' = InDir(tmp_name, "main.asm")
                    /\ pc' = "mod_asm_module"
                    /\ UNCHANGED exc
               ELSE /\ Raise("OSError", "mod_cleanup")
                    /\ UNCHANGED <<patched, files, wrote, asm_input>>
       ELSE /\ asm_input' = Src(idx)
            /\ pc' = "mod_asm_module"
            /\ UNCHANGED <<patched, files, wrote, exc>>
    /\ mod_i' = 1
    /\ UNCHANGED <<textVars, probeVars, harnessVars, bssVars, yesLocals, script, tools, args, idx, data, tmp_name, ntmp,
                   counters, exit_status, calls, failed>>
\* lines 466-472: one assembly per module
ModAsmModule ==
    /\ mod_i <= NumModules
    /\ RunCmd("mod_asm_module", "nasm", InDir(tmp_name, ModuleObjs[mod_i]), ObjText,
              IF mod_i = NumModules THEN "mod_asm_main" ELSE "mod_asm_module",
              "mod_cleanup")
    /\ mod_i' = IF pc' = "mod_cleanup" THEN mod_i ELSE mod_i + 1
\* lines 475-477: the assembly of the main source
ModAsmMain ==
    /\ RunCmd("mod_asm_main", "nasm", InDir(tmp_name, "main.o"), ObjText,
              "mod_link", "mod_cleanup")
    /\ UNCHANGED mod_i
\* lines 480-481: the link
ModLink ==
    /\ RunCmd("mod_link", "ld", Out(idx), ImageText, "mod_chmod", "mod_cleanup")
    /\ UNCHANGED mod_i
ModChmod == ChmodStep("mod_chmod", "mod_cleanup")
\* the end of the with block of line 456
ModCleanup ==
    /\ script = "build_tool" /\ pc = "mod_cleanup"
    /\ files' = RemoveDir(files, tmp_name)
    /\ pc' = IF exc = "none" THEN "verify" ELSE "uncaught"
    /\ UNCHANGED <<textVars, probeVars, harnessVars, bssVars, yesLocals, script, tools, args, idx, buildLocals, wrote, ntmp, exc,
                   counters, exit_status, calls, failed>>

\* verify_tool, lines 538-590, by the outcome of its two comparisons: pass
\* without data or with skip_verify; the help comparison is left out with
\* help_split
VerifyOutcome_NoSplit(found, skip_verify, help_split, help_same, ver_same) ==
    (~found \/ skip_verify) \/ (help_same /\ ver_same)
VerifyOutcome(found, skip_verify, help_split, help_same, ver_same) ==
    (~found \/ skip_verify) \/ ((help_split \/ help_same) /\ ver_same)

\* main, lines 663-670, with verify_tool, lines 538-590: count the tool as OK
\* or FAIL and go on to the next tool
Verify ==
    /\ script = "build_tool" /\ pc = "verify"
    /\ \E skip_verify, help_split, help_same, ver_same \in BOOLEAN :
          LET pass == args.no_verify
                        \/ VerifyOutcome(data.found, skip_verify, help_split,
                                         help_same, ver_same)
          IN  /\ total_ok' = IF pass THEN total_ok + 1 ELSE total_ok
              /\ total_fail' = IF pass THEN total_fail ELSE total_fail + 1
              /\ mismatched' = IF pass THEN mismatched ELSE mismatched \cup {idx}
    /\ built' = built \cup {idx}
    /\ calls' = <<>>
    /\ NextTool
    /\ UNCHANGED <<textVars, probeVars, harnessVars, bssVars, yesLocals, script, tools, args, buildLocals,
                   files, wrote, ntmp, exc, summary, exit_status, failed>>

\* main, lines 672-677: sys.exit(1) when a verification failed, else the
\* script ends with status 0
ExitStatus_IgnoresVerification(detect, fails) == 0
ExitStatus(detect, fails) == IF ~detect /\ fails > 0 THEN 1 ELSE 0

\* main, lines 672-677: the results line and the exit status
Summary ==
    /\ script = "build_tool" /\ pc = "summary"
    /\ summary' = ~args.detect
    /\ exit_status' = ExitStatus(args.detect, total_fail)
    /\ pc' = "exited"
    /\ UNCHANGED <<textVars, probeVars, harnessVars, bssVars, yesLocals, script, tools, args, idx, buildLocals, files, wrote, ntmp,
                   exc, total_ok, total_fail, built, mismatched, calls, failed>>

\* SystemExit or an exception nobody catches ends the process with status 1
Uncaught ==
    /\ script = "build_tool" /\ pc = "uncaught"
    /\ exit_status' = 1
    /\ pc' = "exited"
    /\ UNCHANGED <<textVars, probeVars, harnessVars, bssVars, yesLocals, script, tools, args, idx, buildLocals, files, wrote, ntmp,
                   exc, counters, calls, failed>>

NextBuildTool ==
    \/ Detect \/ BuildTool
    \/ FlatPatch \/ FlatCreate \/ FlatWrite \/ FlatClose \/ FlatNasm \/ FlatChmod
    \/ FlatFinally
    \/ GasPatch \/ GasCreate \/ GasWrite \/ GasClose \/ GasMkdtemp \/ GasAs \/ GasLd
    \/ GasChmod \/ GasFinally \/ GasCleanup
    \/ ModMkdtemp \/ ModPatch \/ ModAsmModule \/ ModAsmMain \/ ModLink \/ ModChmod
    \/ ModCleanup
    \/ Verify \/ Summary \/ Uncaught

SpecBuildTool == InitBuildTool /\ [][NextBuildTool]_vars

\* the interpreter always takes its next step; a step that waits on a child
\* without a timeout is not there to take while the child runs
SpecBuildToolFair == SpecBuildTool /\ WF_vars(NextBuildTool)

(***************************************************************************)
(* yes/build.py: generators, patch_asm, builders and main                  *)
(***************************************************************************)
YesTargets == {"linux-x86_64", "linux-arm64"}
IsGasTarget(t) == t = "linux-arm64"

HelpText == <<"h","e","l","p","_","t","e","x","t">>
VersionText == <<"v","e","r","s","i","o","n","_","t","e","x","t">>
ErrUnrec == <<"e","r","r","_","u","n","r","e","c">>
ErrInval == <<"e","r","r","_","i","n","v","a","l">>
ErrSuffix == <<"e","r","r","_","s","u","f","f","i","x">>
PreSuffix == <<"_","p","r","e">>
SectionRodata == <<" "," "," "," ",".","s","e","c","t","i","o","n"," ",".","r","o","d","a","t","a">>

\* "{:<16}".format(s)
PadLeft16(s) == IF Len(s) < 16 THEN s \o [k \in 1..(16 - Len(s)) |-> " "] ELSE s

RECURSIVE YesNasmLines(_, _, _)
YesNasmLines(bytes, lab, i) ==
    IF i >= Len(bytes) THEN <<>>
    ELSE LET hexb == HexJoin(Chunk(bytes, i))
         IN  <<IF i = 0 THEN PadLeft16(lab) \o DbSpace \o hexb
               ELSE Spaces16 \o DbSpace \o hexb>>
               \o YesNasmLines(bytes, lab, i + ChunkWidth)

\* bytes_to_nasm: "\n".join(lines), one empty line when there are no bytes
bytes_to_nasm(bytes, lab) ==
    IF Len(bytes) = 0 THEN <<Blank>> ELSE YesNasmLines(bytes, lab, 0)

\* bytes_to_gas
bytes_to_gas(bytes, lab) == <<lab \o Colon>> \o EmitBytes(lab, bytes, 0, TRUE)

generate_data_nasm(d) ==
    bytes_to_nasm(d.help, HelpText \o Colon) \o <<NasmLenLine(HelpText), Blank>>
      \o bytes_to_nasm(d.version, VersionText \o Colon) \o <<NasmLenLine(VersionText), Blank>>
      \o bytes_to_nasm(d.err_unrec, ErrUnrec \o Colon) \o <<NasmLenLine(ErrUnrec), Blank>>
      \o bytes_to_nasm(d.err_inval, ErrInval \o Colon) \o <<NasmLenLine(ErrInval), Blank>>
      \o bytes_to_nasm(d.err_suffix, ErrSuffix \o Colon) \o <<NasmLenLine(ErrSuffix)>>

generate_data_gas_linux(d) ==
    <<SectionRodata, Blank>>
      \o bytes_to_gas(d.help, HelpText) \o <<GasSetLine(HelpText), Blank>>
      \o bytes_to_gas(d.version, VersionText) \o <<GasSetLine(VersionText), Blank>>
      \o bytes_to_gas(d.err_unrec, ErrUnrec \o PreSuffix)
      \o <<GasSetLine(ErrUnrec \o PreSuffix), Blank>>
      \o bytes_to_gas(d.err_inval, ErrInval \o PreSuffix)
      \o <<GasSetLine(ErrInval \o PreSuffix), Blank>>
      \o bytes_to_gas(d.err_suffix, ErrSuffix) \o <<GasSetLine(ErrSuffix)>>

GENERATORS(t, d) == IF IsGasTarget(t) THEN generate_data_gas_linux(d) ELSE generate_data_nasm(d)
MARKERS(t) == IF IsGasTarget(t) THEN MARKER_GAS ELSE MARKER_NASM

\* patch_asm: the text written to the temporary copy
PatchAsmText(text, new_data, markers) ==
    LET sline == FindLine(text, markers[1])
        eline == FindLine(text, markers[2])
        scol == FindColumn(text[sline], markers[1])
        ecol == FindColumn(text[eline], markers[2])
        before == SubSeq(text, 1, sline - 1)
                    \o <<SubSeq(text[sline], 1, scol + Len(markers[1]) - 1)>>
        after == <<SubSeq(text[eline], ecol, Len(text[eline]))>>
                    \o SubSeq(text, eline + 1, Len(text))
    IN  IF sline = 0 \/ eline = 0 THEN text
        ELSE before \o new_data \o after

\* the authored sources of fyes: with the markers, and without them
YesSources(t) ==
    IF IsGasTarget(t)
    THEN {GasSource, <<GasHelp, GasByte, GasHelpSet>>}
    ELSE {NasmSource, <<NasmHelpDb, NasmHelpLen>>}

InitYes ==
    /\ script = "yes"
    /\ tools \in {<<[type |-> t]>> : t \in YesTargets}
    /\ args \in [no_patch : {FALSE}, no_verify : BOOLEAN, detect : BOOLEAN]
    /\ idx = 1
    /\ pc = "yes_detect"
    /\ data = NoData /\ patched = <<>> /\ asm_input = NoPath /\ tmp_name = NoPath
    /\ mod_i = 0 /\ tmp_asm = NoPath /\ obj = NoPath
    /\ \E src \in YesSources(tools[1].type) :
          files = [p \in AllPaths |-> IF p = Src(1) THEN File(src) ELSE Absent]
    /\ wrote = {} /\ ntmp = 0 /\ exc = "none"
    /\ total_ok = 0 /\ total_fail = 0 /\ exit_status = -1
    /\ calls = <<>> /\ failed = {} /\ built = {} /\ mismatched = {}
    /\ summary = FALSE
    /\ IdleText
    /\ IdleProbe
    /\ IdleHarness
    /\ IdleBss

\* main, lines 596-608: detect; with --detect return; the source must exist
YesDetect ==
    /\ script = "yes" /\ pc = "yes_detect"
    /\ \E found \in BOOLEAN : data' = IF found THEN SomeData ELSE NoData
    /\ IF args.detect
       THEN pc' = "exited" /\ exit_status' = 0 /\ UNCHANGED exc
       ELSE IF ~files[Src(1)].exists
            THEN Raise("SystemExit", "exited") /\ exit_status' = 1
            ELSE pc' = "yes_patch" /\ UNCHANGED <<exc, exit_status>>
    /\ UNCHANGED <<textVars, probeVars, harnessVars, bssVars, yesLocals, script, tools, args, idx, patched, asm_input,
                   tmp_name, mod_i, files, wrote, ntmp, counters, calls, failed>>

\* main, lines 611-621, and patch_asm, lines 317-323: generate the data and
\* read the source, or build from the source itself
YesPatch ==
    /\ script = "yes" /\ pc = "yes_patch"
    /\ IF data.found
       THEN \E ok \in BOOLEAN :
               IF ok
               THEN /\ patched' = PatchAsmText(files[Src(1)].text,
                                     GENERATORS(tools[1].type, data),
                                     MARKERS(tools[1].type))
                    /\ pc' = "yes_mkstemp"
                    /\ UNCHANGED <<asm_input, exc>>
               ELSE /\ Raise("OSError", "yes_finally")
                    /\ UNCHANGED <<patched, asm_input>>
       ELSE /\ asm_input' = Src(1)
            /\ pc' = "yes_build"
            /\ UNCHANGED <<patched, exc>>
    /\ UNCHANGED <<textVars, probeVars, harnessVars, bssVars, yesLocals, script, tools, args, idx, data, tmp_name, mod_i,
                   files, wrote, ntmp, counters, exit_status, calls, failed>>

\* patch_asm, lines 328-329 / 338-339: tempfile.mkstemp
YesMkstemp ==
    /\ script = "yes" /\ pc = "yes_mkstemp"
    /\ \E ok \in BOOLEAN :
          IF ok
          THEN /\ ntmp' = ntmp + 1
               /\ tmp_name' = Tmp(ntmp + 1)
               /\ files' = WriteFile(files, Tmp(ntmp + 1), <<>>)
               /\ wrote' = wrote \cup {Tmp(ntmp + 1)}
               /\ pc' = "yes_write"
               /\ UNCHANGED exc
          ELSE /\ Raise("OSError", "yes_finally")
               /\ UNCHANGED <<ntmp, tmp_name, files, wrote>>
    /\ UNCHANGED <<textVars, probeVars, harnessVars, bssVars, yesLocals, script, tools, args, idx, data, patched,
                   asm_input, mod_i, counters, exit_status, calls, failed>>

\* patch_asm, lines 330-331 / 340-342: copy or write the text and return the
\* path, which main keeps in tmp_asm
YesWrite ==
    /\ script = "yes" /\ pc = "yes_write"
    /\ \E ok \in BOOLEAN :
          IF ok
          THEN /\ files' = WriteFile(files, tmp_name, patched)
               /\ tmp_asm' = tmp_name
               /\ asm_input' = tmp_name
               /\ pc' = "yes_build"
               /\ UNCHANGED exc
          ELSE /\ Raise("OSError", "yes_finally")
               /\ UNCHANGED <<files, tmp_asm, asm_input>>
    /\ UNCHANGED <<textVars, probeVars, harnessVars, bssVars, obj, script, tools, args, idx, data, patched, tmp_name,
                   mod_i, wrote, ntmp, counters, exit_status, calls, failed>>

\* run, lines 61-69: as run_cmd
YesRun(here, prog, out, outText, next, handler) ==
    /\ script = "yes" /\ pc = here
    /\ \E rc \in ReturnCodes :
          /\ calls' = Append(calls, <<prog, rc>>)
          /\ IF rc = 0
             THEN /\ files' = WriteFile(files, out, outText)
                  /\ wrote' = wrote \cup {out}
                  /\ pc' = next
                  /\ UNCHANGED <<exc, failed>>
             ELSE IF rc = NoReturn
             THEN /\ pc' = "blocked"
                  /\ UNCHANGED <<exc, failed, files, wrote>>
             ELSE /\ Raise("SystemExit", handler)
                  /\ failed' = failed \cup {idx}
                  /\ UNCHANGED <<files, wrote>>
    /\ UNCHANGED <<textVars, probeVars, harnessVars, bssVars, yesLocals, script, tools, args, idx, buildLocals, ntmp,
                   counters, exit_status>>

\* build_linux_x86_64, lines 357-365: nasm must be installed; assemble
YesNasm ==
    /\ tools[1].type = "linux-x86_64"
    /\ \/ YesRun("yes_build", "nasm", Out(1), ImageText, "yes_chmod", "yes_finally")
       \/ /\ script = "yes" /\ pc = "yes_build"
          /\ Raise("SystemExit", "yes_finally")
          /\ UNCHANGED <<textVars, probeVars, harnessVars, bssVars, yesLocals, script, tools, args, idx, buildLocals,
                         files, wrote, ntmp, counters, exit_status, calls, failed>>

YesChmod ==
    /\ script = "yes" /\ pc = "yes_chmod"
    /\ files' = [files EXCEPT ![Out(1)].exec = TRUE]
    /\ wrote' = wrote \cup {Out(1)}
    /\ pc' = IF IsGasTarget(tools[1].type) THEN "yes_obj_finally" ELSE "yes_verify"
    /\ UNCHANGED <<textVars, probeVars, harnessVars, bssVars, yesLocals, script, tools, args, idx, buildLocals, ntmp,
                   exc, counters, exit_status, calls, failed>>

\* build_linux_arm64, lines 368-391: find the assembler and the linker, then
\* tempfile.mkstemp(suffix=".o")
YesObjCreate ==
    /\ script = "yes" /\ pc = "yes_build"
    /\ tools[1].type = "linux-arm64"
    /\ \E outcome \in {"no tool", "no file", "ok"} :
          IF outcome = "ok"
          THEN /\ ntmp' = ntmp + 1
               /\ obj' = Tmp(ntmp + 1)
               /\ files' = WriteFile(files, Tmp(ntmp + 1), <<>>)
               /\ wrote' = wrote \cup {Tmp(ntmp + 1)}
               /\ pc' = "yes_as"
               /\ UNCHANGED exc
          ELSE /\ Raise(IF outcome = "no tool" THEN "SystemExit" ELSE "OSError",
                        "yes_finally")
               /\ UNCHANGED <<ntmp, obj, files, wrote>>
    /\ UNCHANGED <<textVars, probeVars, harnessVars, bssVars, tmp_asm, script, tools, args, idx, buildLocals,
                   counters, exit_status, calls, failed>>

\* lines 392-400: assemble, link, chmod; the finally clause removes obj
YesAs == YesRun("yes_as", "as", obj, ObjText, "yes_ld", "yes_obj_finally")
YesLd == YesRun("yes_ld", "ld", Out(1), ImageText, "yes_chmod", "yes_obj_finally")
YesObjFinally ==
    /\ script = "yes" /\ pc = "yes_obj_finally"
    /\ IF files[obj].exists
       THEN files' = Unlink(files, obj) /\ wrote' = wrote \cup {obj}
       ELSE UNCHANGED <<files, wrote>>
    /\ pc' = IF exc = "none" THEN "yes_verify" ELSE "yes_finally"
    /\ UNCHANGED <<textVars, probeVars, harnessVars, bssVars, yesLocals, script, tools, args, idx, buildLocals, ntmp,
                   exc, counters, exit_status, calls, failed>>

\* main, lines 625-627: verify prints its report
YesVerify ==
    /\ script = "yes" /\ pc = "yes_verify"
    /\ built' = {1}
    /\ pc' = "yes_finally"
    /\ UNCHANGED <<textVars, probeVars, harnessVars, bssVars, yesLocals, script, tools, args, idx, buildLocals, files,
                   wrote, ntmp, exc, total_ok, total_fail, mismatched, summary,
                   exit_status,
                   calls, failed>>

\* main, lines 629-631: the finally clause removes tmp_asm; the process ends
YesFinally ==
    /\ script = "yes" /\ pc = "yes_finally"
    /\ IF tmp_asm # NoPath /\ files[tmp_asm].exists
       THEN files' = Unlink(files, tmp_asm) /\ wrote' = wrote \cup {tmp_asm}
       ELSE UNCHANGED <<files, wrote>>
    /\ exit_status' = IF exc = "none" THEN 0 ELSE 1
    /\ pc' = "exited"
    /\ UNCHANGED <<textVars, probeVars, harnessVars, bssVars, yesLocals, script, tools, args, idx, buildLocals, ntmp,
                   exc, counters, calls, failed>>

NextYes ==
    \/ YesDetect \/ YesPatch \/ YesMkstemp \/ YesWrite \/ YesNasm \/ YesChmod
    \/ YesObjCreate \/ YesAs \/ YesLd \/ YesObjFinally \/ YesVerify \/ YesFinally

(***************************************************************************)
(* One run of either script                                                *)
(***************************************************************************)
InitPipeline == InitBuildTool \/ InitYes
NextPipeline == NextBuildTool \/ NextYes
SpecPipeline == InitPipeline /\ [][NextPipeline]_vars

(***************************************************************************)
(* detect_tool_data and detect_system_yes: probing the reference binary    *)
(***************************************************************************)
\* bytes.find(sub): the offset of the first occurrence, -1 when absent
find(s, sub) ==
    IF contains(s, sub)
    THEN CHOOSE k \in 0..(Len(s) - Len(sub)) :
            /\ SubSeq(s, k + 1, k + Len(sub)) = sub
            /\ \A m \in 0..(k - 1) : SubSeq(s, m + 1, m + Len(sub)) # sub
    ELSE -1

\* bytes.replace(old, new), old not empty
RECURSIVE replace(_, _, _)
replace(s, old, new) ==
    LET p == find(s, old)
    IN  IF p < 0 THEN s
        ELSE SubSeq(s, 1, p) \o new
               \o replace(SubSeq(s, p + Len(old) + 1, Len(s)), old, new)

\* bytes.split(b"\n")
RECURSIVE split(_)
split(s) ==
    LET p == find(s, <<"\n">>)
    IN  IF p < 0 THEN <<s>>
        ELSE <<SubSeq(s, 1, p)>> \o split(SubSeq(s, p + 2, Len(s)))

LONG_PROBE ==
    <<"-","-","b","o","g","u","s","_","t","e","s","t","_","o","p","t","i","o",
      "n","_","x","y","z">>
SHORT_PROBE == <<"Z">>
DashChar == <<"-">>
TimedOutText == <<":"," ","t","i","m","e","d"," ","o","u","t">>
UsageText == <<"U","s","a","g","e",":"," ">>
UsageTail == <<" ","[","O","P","T","I","O","N","]","\n">>
VersionTail == <<" ","9",".","4","\n">>
UnrecText ==
    <<":"," ","u","n","r","e","c","o","g","n","i","z","e","d"," ","o","p","t",
      "i","o","n"," ","'">>
InvalText ==
    <<":"," ","i","n","v","a","l","i","d"," ","o","p","t","i","o","n"," ","-",
      "-"," ","'">>
QuoteText == <<"'">>
TryText == <<"\n","T","r","y"," ","'">>
TryTail == <<" ","-","-","h","e","l","p","'","\n">>
WcName == <<"w","c">>
WcPath == <<"/","u","s","r","/","b","i","n","/","w","c">>
WcPathZ == <<"/","o","p","t","/","Z","/","w","c">>
YesName == <<"y","e","s">>
GyesPath ==
    <<"/","u","s","r","/","l","o","c","a","l","/","b","i","n","/","g","y","e",
      "s">>

\* what the reference binary prints for each of the four invocations, by the
\* way the invocation ends
HelpOutcomes == {"stdout", "stderr", "timeout"}
ErrOutcomes == {"rejected", "accepted", "timeout"}
ProbeOutcomes ==
    [help : HelpOutcomes, version : HelpOutcomes, long : ErrOutcomes, short : ErrOutcomes]

Ran(out, err, rc) == [timeout |-> FALSE, out |-> out, err |-> err, rc |-> rc]
TimesOut == [timeout |-> TRUE, out |-> <<>>, err |-> <<>>, rc |-> 0]

HelpOutput(prog) == UsageText \o prog \o UsageTail
VersionOutput(name) == name \o VersionTail
TryLine(prog) == TryText \o prog \o TryTail
UnrecOutput(prog) == prog \o UnrecText \o LONG_PROBE \o QuoteText \o TryLine(prog)
InvalOutput(prog) == prog \o InvalText \o SHORT_PROBE \o QuoteText \o TryLine(prog)

RunHelp(prog, how) ==
    IF how = "timeout" THEN TimesOut
    ELSE IF how = "stdout" THEN Ran(HelpOutput(prog), <<>>, 0)
    ELSE Ran(<<>>, HelpOutput(prog), 0)
RunVersion(name, how) ==
    IF how = "timeout" THEN TimesOut
    ELSE IF how = "stdout" THEN Ran(VersionOutput(name), <<>>, 0)
    ELSE Ran(<<>>, VersionOutput(name), 0)
RunLong(prog, how) ==
    IF how = "timeout" THEN TimesOut
    ELSE IF how = "rejected" THEN Ran(<<>>, UnrecOutput(prog), 1)
    ELSE Ran(<<>>, <<>>, 0)
RunShort(prog, how) ==
    IF how = "timeout" THEN TimesOut
    ELSE IF how = "rejected" THEN Ran(<<>>, InvalOutput(prog), 1)
    ELSE Ran(<<>>, <<>>, 0)

\* capture: (stdout, stderr, returncode); the diagnostic of a timeout goes
\* into stderr
capture(prog, run) ==
    IF run.timeout
    THEN [out |-> <<>>, err |-> prog \o TimedOutText, rc |-> 124]
    ELSE [out |-> run.out, err |-> run.err, rc |-> run.rc]

\* None, and the dict of the two detection functions
NoneDetected ==
    [found |-> FALSE, help |-> <<>>, version |-> <<>>,
     err_unrec |-> <<>>, err_inval |-> <<>>, err_suffix |-> <<>>]
Detected(help, version, err_unrec, err_inval, err_suffix) ==
    [found |-> TRUE, help |-> help, version |-> version,
     err_unrec |-> err_unrec, err_inval |-> err_inval, err_suffix |-> err_suffix]

\* line1[:pos], line1[pos + len(probe):] and the try line
TextBefore(line, probe) == SubSeq(line, 1, find(line, probe))
TextAfter(line, probe) == SubSeq(line, find(line, probe) + Len(probe) + 1, Len(line))
SecondLine(lines) == IF Len(lines) > 1 THEN lines[2] ELSE <<>>

\* detect_tool_data, lines 132-196 of build_tool.py
detect_tool_data(bin, name, how) ==
    LET h == capture(bin, RunHelp(bin, how.help))
        v == capture(bin, RunVersion(name, how.version))
        err_long == capture(bin, RunLong(bin, how.long)).err
        err_short == capture(bin, RunShort(bin, how.short)).err
        help_text == IF h.out # <<>> THEN h.out ELSE h.err
        ver_text == IF v.out # <<>> THEN v.out ELSE v.err
        long_lines == split(err_long)
        short_lines == split(err_short)
        long_ok == err_long # <<>> /\ find(long_lines[1], LONG_PROBE) >= 0
        short_ok == err_short # <<>> /\ find(short_lines[1], SHORT_PROBE) >= 0
        err_unrec == IF long_ok THEN TextBefore(long_lines[1], LONG_PROBE) ELSE <<>>
        err_suffix == IF long_ok
                      THEN TextAfter(long_lines[1], LONG_PROBE) \o <<"\n">>
                             \o SecondLine(long_lines) \o <<"\n">>
                      ELSE <<>>
        err_inval == IF short_ok THEN TextBefore(short_lines[1], SHORT_PROBE) ELSE <<>>
    IN  IF bin = <<>> THEN NoneDetected
        ELSE Detected(replace(help_text, bin, name), replace(ver_text, bin, name),
                      replace(err_unrec, bin, name), replace(err_inval, bin, name),
                      replace(err_suffix, bin, name))

\* detect_system_yes, lines 135-192 of yes/build.py
detect_system_yes(bin, name, how) ==
    LET help_out == capture(bin, RunHelp(bin, how.help)).out
        ver_out == capture(bin, RunVersion(name, how.version)).out
        err_long == capture(bin, RunLong(bin, how.long)).err
        err_short == capture(bin, RunShort(bin, how.short)).err
        long_lines == split(err_long)
        short_lines == split(err_short)
    IN  IF bin = <<>> THEN NoneDetected
        ELSE IF find(long_lines[1], LONG_PROBE) < 0 THEN NoneDetected
        ELSE IF find(short_lines[1], SHORT_PROBE) < 0 THEN NoneDetected
        ELSE Detected(help_out, ver_out,
                      TextBefore(long_lines[1], LONG_PROBE),
                      TextBefore(short_lines[1], SHORT_PROBE),
                      TextAfter(long_lines[1], LONG_PROBE) \o <<"\n">>
                        \o SecondLine(long_lines) \o <<"\n">>)

\* the reference binary as find_gnu_binary / find_yes_binary return it
GnuBins(s) ==
    IF s = "build_tool" THEN {<<>>, WcPath, WcPathZ}
    ELSE {<<>>, YesName, GyesPath}
GnuName(s) == IF s = "build_tool" THEN WcName ELSE YesName

InitDetect ==
    /\ pc = "probe"
    /\ script \in {"build_tool", "yes"}
    /\ gnu_bin \in GnuBins(script)
    /\ probes \in ProbeOutcomes
    /\ detected = <<>>
    /\ config = <<>> /\ binary_path = <<>> /\ our = <<>> /\ verify_ok = FALSE
    /\ tools = <<>> /\ args = NoFlags /\ idx = 0
    /\ data = NoData /\ patched = <<>> /\ asm_input = NoPath /\ tmp_name = NoPath
    /\ mod_i = 0 /\ tmp_asm = NoPath /\ obj = NoPath
    /\ files = [p \in AllPaths |-> Absent] /\ wrote = {} /\ ntmp = 0
    /\ exc = "none" /\ total_ok = 0 /\ total_fail = 0 /\ exit_status = -1
    /\ calls = <<>> /\ failed = {} /\ built = {} /\ mismatched = {}
    /\ summary = FALSE
    /\ IdleText
    /\ IdleHarness
    /\ IdleBss

DetectToolData ==
    /\ pc = "probe" /\ script = "build_tool"
    /\ detected' = detect_tool_data(gnu_bin, GnuName(script), probes)
    /\ pc' = "probed"
    /\ UNCHANGED <<textVars, pipeVars, harnessVars, bssVars, gnu_bin, probes, config, binary_path, our,
                   verify_ok>>

DetectSystemYes ==
    /\ pc = "probe" /\ script = "yes"
    /\ detected' = detect_system_yes(gnu_bin, GnuName(script), probes)
    /\ pc' = "probed"
    /\ UNCHANGED <<textVars, pipeVars, harnessVars, bssVars, gnu_bin, probes, config, binary_path, our,
                   verify_ok>>

NextDetect == DetectToolData \/ DetectSystemYes

SpecDetect == InitDetect /\ [][NextDetect]_vars

(***************************************************************************)
(* verify_tool: the built binary against the detected data                 *)
(***************************************************************************)
\* what a binary prints, as pieces of text and places where it prints the
\* name it was invoked by (argv[0])
Argv0 == <<"argv[0]">>
RECURSIVE Render(_, _)
Render(t, prog) ==
    IF t = <<>> THEN <<>>
    ELSE (IF Head(t) = Argv0 THEN prog ELSE Head(t)) \o Render(Tail(t), prog)

BuiltPath == <<"/","s","r","c","/","w","c","/","f","w","c">>
BuiltPathRel == <<"w","c","/","f","w","c">>
OrText == <<" "," ","o","r",":"," ">>

HelpTemplates ==
    {<<UsageText, Argv0, UsageTail>>,
     <<UsageText, Argv0, UsageTail, OrText, Argv0, VersionTail>>,
     <<UsageText, WcName, UsageTail>>,
     <<UsageText, Argv0, VersionTail>>}
VersionTemplates ==
    {<<WcName, VersionTail>>, <<Argv0, VersionTail>>, <<WcName, UsageTail>>}
\* nothing printed: the binary crashed or timed out
NoOutput == <<>>

\* the data detect_tool_data returns for a reference binary that prints the
\* two templates
ReferenceData(bin, name, help_t, ver_t) ==
    Detected(replace(Render(help_t, bin), bin, name),
             replace(Render(ver_t, bin), bin, name), <<>>, <<>>, <<>>)

\* lines 558-561 / 577-580: the two sides of a comparison
OurNorm_NoReplace(text, path, tool) == text
OurNorm(text, path, tool) == replace(text, path, tool)
Expected(text, gnu_name, tool) == replace(text, gnu_name, tool)

\* verify_tool, lines 538-590
verify_tool(tool, path, d, cfg, printed) ==
    LET gnu_name == tool
        help_same == OurNorm(printed.help, path, tool) = Expected(d.help, gnu_name, tool)
        ver_same == OurNorm(printed.version, path, tool)
                        = Expected(d.version, gnu_name, tool)
    IN  VerifyOutcome(d.found, cfg.skip_verify, cfg.help_split, help_same, ver_same)

InitVerify ==
    /\ pc = "verify_tool"
    /\ script = "build_tool"
    /\ config \in [help_split : BOOLEAN, skip_verify : BOOLEAN]
    /\ binary_path \in {BuiltPath, BuiltPathRel}
    /\ gnu_bin \in {<<>>, WcPath}
    /\ \E help_t \in HelpTemplates, ver_t \in VersionTemplates :
          detected = IF gnu_bin = <<>> THEN NoneDetected
                     ELSE ReferenceData(gnu_bin, WcName, help_t, ver_t)
    /\ \E help_t \in HelpTemplates \cup {NoOutput},
          ver_t \in VersionTemplates \cup {NoOutput} :
          our = [help |-> Render(help_t, binary_path),
                 version |-> Render(ver_t, binary_path),
                 help_t |-> help_t, version_t |-> ver_t]
    /\ probes = <<>> /\ verify_ok = FALSE
    /\ tools = <<>> /\ args = NoFlags /\ idx = 0
    /\ data = NoData /\ patched = <<>> /\ asm_input = NoPath /\ tmp_name = NoPath
    /\ mod_i = 0 /\ tmp_asm = NoPath /\ obj = NoPath
    /\ files = [p \in AllPaths |-> Absent] /\ wrote = {} /\ ntmp = 0
    /\ exc = "none" /\ total_ok = 0 /\ total_fail = 0 /\ exit_status = -1
    /\ calls = <<>> /\ failed = {} /\ built = {} /\ mismatched = {}
    /\ summary = FALSE
    /\ IdleText
    /\ IdleHarness
    /\ IdleBss

VerifyTool ==
    /\ pc = "verify_tool"
    /\ verify_ok' = verify_tool(WcName, binary_path, detected, config, our)
    /\ pc' = "verified"
    /\ UNCHANGED <<textVars, pipeVars, harnessVars, bssVars, gnu_bin, probes, detected, config, binary_path,
                   our>>

NextVerify == VerifyTool

SpecVerify == InitVerify /\ [][NextVerify]_vars

(***************************************************************************)
(* tests/security_tests.py: the accounting of the per-tool test harnesses  *)
(***************************************************************************)
\* the harnesses come in two kinds. As true/tests: arch, echo, hostid,
\* logname, sleep (report_skip); as head/tests: base64, cut, md5sum, tac,
\* tail, wc (skip_test)
Harnesses == {"true", "head"}

\* report_skip of true/tests, lines 72-82, calls pass_count_inc; skip_test
\* of head/tests, lines 52-56, leaves pass_count alone
SkipCountsAsPass(h) == h = "true"

\* the test of the last line: test_count - pass_count in true/tests,
\* test_count - pass_count - skip_count in head/tests
Unpassed(h, tests, passes, skips) ==
    IF h = "true" THEN tests - passes ELSE tests - passes - skips

InitHarness ==
    /\ pc = "testing"
    /\ harness \in Harnesses
    /\ test_count = 0 /\ pass_count = 0 /\ skip_count = 0
    /\ reports = NoReports /\ shown = NoFigures
    /\ IdleText
    /\ IdlePipeline
    /\ gnu_bin = <<>> /\ probes = <<>> /\ detected = <<>>
    /\ config = <<>> /\ binary_path = <<>> /\ our = <<>> /\ verify_ok = FALSE
    /\ IdleBss

\* report_result(ok, label)
ReportResult ==
    /\ pc = "testing" /\ test_count < MaxReports
    /\ \E ok \in BOOLEAN :
          /\ test_count' = test_count + 1
          /\ pass_count' = IF ok THEN pass_count + 1 ELSE pass_count
          /\ reports' = IF ok THEN [reports EXCEPT !.pass = @ + 1]
                        ELSE [reports EXCEPT !.fail = @ + 1]
    /\ UNCHANGED <<pc, textVars, pipeVars, probeVars, bssVars, harness, skip_count, shown>>

\* report_skip(label) / skip_test(label, reason)
ReportSkip ==
    /\ pc = "testing" /\ test_count < MaxReports
    /\ test_count' = test_count + 1
    /\ skip_count' = skip_count + 1
    /\ pass_count' = IF SkipCountsAsPass(harness) THEN pass_count + 1 ELSE pass_count
    /\ reports' = [reports EXCEPT !.skip = @ + 1]
    /\ UNCHANGED <<pc, textVars, pipeVars, probeVars, bssVars, harness, shown>>

\* print_summary: the RESULTS line
PrintSummary ==
    /\ pc = "testing"
    /\ shown' = [passed |-> pass_count, total |-> test_count,
                 failed |-> test_count - pass_count - skip_count,
                 skipped |-> skip_count]
    /\ pc' = "summarised"
    /\ UNCHANGED <<textVars, pipeVars, probeVars, bssVars, harness, test_count, pass_count,
                   skip_count, reports>>

\* sys.exit(0 if ... == 0 else 1)
HarnessExit ==
    /\ pc = "summarised"
    /\ exit_status' = IF Unpassed(harness, test_count, pass_count, skip_count) = 0
                      THEN 0 ELSE 1
    /\ pc' = "exited"
    /\ UNCHANGED <<textVars, probeVars, harnessVars, bssVars, script, tools, args, idx,
                   buildLocals, yesLocals, files, wrote, ntmp, exc, counters, calls,
                   failed>>

NextHarness == ReportResult \/ ReportSkip \/ PrintSummary \/ HarnessExit

SpecHarness == InitHarness /\ [][NextHarness]_vars

(***************************************************************************)
(* src/asm/build_unified.py: the layout of the .bss reservations           *)
(***************************************************************************)
IobufName == <<"I","O","B","U","F","_","S","I","Z","E">>
IobufDigits == <<"6","5","5","3","6">>
FrombufName == <<"F","R","O","M","B","U","F","_","S","I","Z","E">>
\* str(4*1024*1024)
FrombufDigits == <<"4","1","9","4","3","0","4">>
\* type_sizes, line 92
type_sizes == [b |-> 1, w |-> 2, d |-> 4, q |-> 8]
SizeTypes == {"b", "w", "d", "q"}

\* count_str: a decimal number or one of the two names the script
\* substitutes
CountStrings == {<<"1">>, <<"1","6">>, IobufName, FrombufName}
\* eval of a string of decimal digits
DigitValue(c) == CHOOSE d \in 0..9 : Digits[d + 1] = c
RECURSIVE Decimal(_)
Decimal(str) ==
    IF str = <<>> THEN 0
    ELSE Decimal(SubSeq(str, 1, Len(str) - 1)) * 10 + DigitValue(str[Len(str)])
\* lines 87-90: the two replacements and eval
EvalCount(count_str) ==
    Decimal(replace(replace(count_str, IobufName, IobufDigits),
                    FrombufName, FrombufDigits))

\* a line of the .bss section: blank or comment, a reservation the
\* pattern of line 81 matches ("name: res<type> <count>"), or anything else
BssLines ==
    {[kind |-> "blank"], [kind |-> "other"]}
      \cup [kind : {"entry"}, size_type : SizeTypes, count_str : CountStrings]

\* lines 92-93: size = type_sizes[size_type] * count
EntrySize_CountOnly(size_type, count) == count
EntrySize(size_type, count) == type_sizes[size_type] * count

InitBss ==
    /\ pc = "bss_loop"
    /\ bss_lines \in UNION {[1..k -> BssLines] : k \in 1..MaxBssLines}
    /\ bss_pos = 1
    /\ bss_entries = <<>> /\ total_bss = 0 /\ bss_size = -1
    /\ IdleText
    /\ IdlePipeline
    /\ gnu_bin = <<>> /\ probes = <<>> /\ detected = <<>>
    /\ config = <<>> /\ binary_path = <<>> /\ our = <<>> /\ verify_ok = FALSE
    /\ harness = "none" /\ test_count = 0 /\ pass_count = 0 /\ skip_count = 0
    /\ reports = NoReports /\ shown = NoFigures

\* lines 76-95: one iteration of the loop over bss_lines
ParseBssLine ==
    /\ pc = "bss_loop" /\ bss_pos <= Len(bss_lines)
    /\ LET line == bss_lines[bss_pos]
       IN  IF line.kind = "entry"
           THEN LET size == EntrySize(line.size_type, EvalCount(line.count_str))
                IN  /\ bss_entries' = Append(bss_entries,
                           [name |-> bss_pos, offset |-> total_bss, size |-> size])
                    /\ total_bss' = total_bss + size
           ELSE UNCHANGED <<bss_entries, total_bss>>
    /\ bss_pos' = bss_pos + 1
    /\ UNCHANGED <<pc, textVars, pipeVars, probeVars, harnessVars, bss_lines, bss_size>>

\* lines 261-265: the equ line of every entry and the bss_size line
OutputBss ==
    /\ pc = "bss_loop" /\ bss_pos > Len(bss_lines)
    /\ bss_size' = total_bss
    /\ pc' = "written"
    /\ UNCHANGED <<textVars, pipeVars, probeVars, harnessVars, bss_lines, bss_pos,
                   bss_entries, total_bss>>

NextBss == ParseBssLine \/ OutputBss

SpecBss == InitBss /\ [][NextBss]_vars

(***************************************************************************)
(* What the assembler makes of a text: labels, emitted bytes, directives   *)
(***************************************************************************)
\* the name a line defines, <<>> when the line defines no label
LabelName(line) ==
    LET sl == strip(line)
    IN  IF MatchLabelDef(sl)
        THEN SubSeq(sl, 1, (CHOOSE k \in 1..(Len(sl) - 1) :
                               sl[k + 1] = ":" /\ \A m \in 1..k : IsWord(sl[m])))
        ELSE <<>>

\* the line without the label it defines
AfterLabel(line) ==
    LET sl == strip(line)
    IN  IF MatchLabelDef(sl)
        THEN strip(SubSeq(sl, Len(LabelName(line)) + 2, Len(sl)))
        ELSE sl

\* number of operands of a comma-separated operand list
Operands(s) == 1 + Cardinality({k \in 1..Len(s) : s[k] = ","})

DwSpace == <<"d","w"," ">>
DotByteSpace == <<".","b","y","t","e"," ">>
DotAscizSpace == <<".","a","s","c","i","z"," ">>

\* number of bytes the assembler emits for a line
EmittedBytes(line) ==
    LET d == AfterLabel(line)
    IN  IF startswith(lower(d), DbSpace) THEN Operands(d)
        ELSE IF startswith(lower(d), DwSpace) THEN 2 * Operands(d)
        ELSE IF startswith(d, DotByteSpace) THEN Operands(d)
        ELSE IF startswith(d, DotAscizSpace) THEN Len(d) - Len(DotAscizSpace) - 1
        ELSE 0

RECURSIVE BytesBetween(_, _, _)
\* bytes emitted by the lines a..b of a text
BytesBetween(text, a, b) ==
    IF a > b THEN 0 ELSE EmittedBytes(text[a]) + BytesBetween(text, a + 1, b)

\* is the line a length directive of the label
IsLenDirective(line, lab, gas) ==
    IF gas
    THEN \/ startswith(strip(line), DotSet \o lab \o LenSuffix)
         \/ startswith(strip(line), DotEqu \o lab \o LenSuffix)
    ELSE startswith(strip(line), lab \o LenSuffix)

\* is the line the length directive the splicer generates for the label
IsGeneratedLen(line, lab, gas) ==
    IF gas THEN line \in {GasSetLine(lab), GasEquLine(lab)}
    ELSE line = NasmLenLine(lab)

\* is the line old content of a block: bytes, other data, blank or comment
IsBlockLine(line) ==
    /\ LabelName(line) = <<>>
    /\ \/ EmittedBytes(line) > 0
       \/ strip(line) = <<>>
       \/ startswith(strip(line), Semicolon)
       \/ startswith(strip(line), SlashSlash)

\* as IsBlockLine, without the data directives other than db / .byte
IsPlainBlockLine(line) ==
    /\ IsBlockLine(line)
    /\ EmittedBytes(line) > 0 =>
          \/ startswith(lower(strip(line)), DbSpace)
          \/ startswith(strip(line), DotByteSpace)

\* index of the first definition line of the label in a text, 0 when none
FirstDef(text, lab) ==
    IF \E k \in 1..Len(text) : LabelName(text[k]) = lab
    THEN CHOOSE k \in 1..Len(text) :
            /\ LabelName(text[k]) = lab
            /\ \A m \in 1..(k - 1) : LabelName(text[m]) # lab
    ELSE 0

\* index of the first length directive of the label after line t, 0 when none
FirstLen(text, t, lab, gas) ==
    IF \E k \in (t + 1)..Len(text) : IsLenDirective(text[k], lab, gas)
    THEN CHOOSE k \in (t + 1)..Len(text) :
            /\ IsLenDirective(text[k], lab, gas)
            /\ \A m \in (t + 1)..(k - 1) : ~IsLenDirective(text[m], lab, gas)
    ELSE 0

\* the last n lines of a text
Suffix(text, n) == SubSeq(text, Len(text) - n + 1, Len(text))

Spliced == pc = "spliced"
\* a splice of a non-empty payload, as patch_source requests it
SplicedPayload == Spliced /\ Len(new_bytes) > 0
Target == FirstDef(content, label)

(***************************************************************************)
(* C1 - termination-safety: when the old block of the target label is      *)
(* followed directly (no length directive, no end label in between) by the *)
(* definition line of a different label, that line and every line after   *)
(* it appear unchanged at the end of the output, whatever the line         *)
(* carries.                                                                *)
(***************************************************************************)
\* line k defines another label and only block lines separate it from t
FollowedByOtherLabel(t, k) ==
    /\ t > 0 /\ t < k /\ k <= Len(content)
    /\ \A m \in (t + 1)..(k - 1) : IsBlockLine(content[m])
    /\ LabelName(content[k]) # <<>>
    /\ LabelName(content[k]) # label
    /\ ~startswith(LabelName(content[k]), label \o LenSuffix)
    /\ ~startswith(LabelName(content[k]), label \o EndSuffix)

C1_StopsBeforeUnrelatedLabel ==
    SplicedPayload =>
        \A k \in 1..Len(content) :
            FollowedByOtherLabel(Target, k) =>
                /\ Len(result) >= Len(content) - k + 1
                /\ Suffix(result, Len(content) - k + 1)
                     = SubSeq(content, k, Len(content))

(***************************************************************************)
(* C2 - length-correctness: for a non-empty payload P and any old block    *)
(* (bytes, blanks, comments, other data directives) ended by the length    *)
(* directive of the label, the bytes emitted in the output between the     *)
(* label and its length directive number exactly len(P).                   *)
(***************************************************************************)
\* the block of the target runs from t to its length directive at d
BlockWithLen(t, d) ==
    /\ t > 0 /\ d > t
    /\ d = FirstLen(content, t, label, is_gas)
    /\ \A m \in (t + 1)..(d - 1) : IsBlockLine(content[m])

C2_LengthIsPayloadLength ==
    SplicedPayload =>
        \A d \in 1..Len(content) :
            BlockWithLen(Target, d) =>
                LET t2 == FirstDef(result, label)
                    d2 == FirstLen(result, t2, label, is_gas)
                IN  /\ t2 > 0 /\ d2 > t2
                    /\ BytesBetween(result, t2, d2 - 1) = Len(new_bytes)

(***************************************************************************)
(* C3 - end-label terminator: when the old block ends with the label       *)
(* <label>_end immediately followed by the length directive, the output    *)
(* holds, after the new payload, both the <label>_end definition and the   *)
(* length directive, in both dialects.                                     *)
(***************************************************************************)
\* the block of the target ends with <label>_end at e and the directive at e + 1
BlockWithEnd(t, e) ==
    /\ t > 0 /\ e > t /\ e + 1 <= Len(content)
    /\ \A m \in (t + 1)..(e - 1) : IsPlainBlockLine(content[m])
    /\ strip(content[e]) = label \o EndColon
    /\ IsLenDirective(content[e + 1], label, is_gas)

C3_EndLabelAndLengthReemitted ==
    SplicedPayload =>
        \A e \in 1..Len(content) :
            BlockWithEnd(Target, e) =>
                \E a, b \in 1..Len(result) :
                    /\ FirstDef(result, label) > 0
                    /\ FirstDef(result, label) < a /\ a < b
                    /\ strip(result[a]) = label \o EndColon
                    /\ IsLenDirective(result[b], label, is_gas)

(***************************************************************************)
(* C4 - the length expression is always regenerated: in every terminator   *)
(* case and both dialects the length directive that follows the new        *)
(* payload is the text the splicer generates from the label name, never    *)
(* the old directive line.                                                 *)
(***************************************************************************)
\* the scan of the block of t ends at the length directive d of the label
TerminatedByLen(t, d) ==
    /\ t > 0 /\ d > t /\ d <= Len(content)
    /\ IsLenDirective(content[d], label, is_gas)
    /\ \/ \A m \in (t + 1)..(d - 1) : IsPlainBlockLine(content[m])
       \/ BlockWithEnd(t, d - 1)

C4_LengthRegenerated ==
    SplicedPayload =>
        \A d \in 1..Len(content) :
            TerminatedByLen(Target, d) =>
                LET t2 == FirstDef(result, label)
                    d2 == FirstLen(result, t2, label, is_gas)
                IN  d2 > 0 /\ IsGeneratedLen(result[d2], label, is_gas)

(***************************************************************************)
(* C5 - zero-length boundary: splicing a zero-length payload yields, in    *)
(* both dialects, the definition of the target label, exactly one emission *)
(* line encoding a single zero value, and a length directive that          *)
(* evaluates to 0.                                                         *)
(***************************************************************************)
\* the operand text of a db / .byte line
OperandText(line) ==
    LET d == AfterLabel(line)
    IN  IF startswith(lower(d), DbSpace) THEN strip(SubSeq(d, 4, Len(d)))
        ELSE IF startswith(d, DotByteSpace) THEN strip(SubSeq(d, 7, Len(d)))
        ELSE <<>>

\* the line emits one byte of value zero
EmitsSingleZero(line) ==
    /\ EmittedBytes(line) = 1
    /\ OperandText(line) \in {<<"0">>, <<"0","x","0","0">>}

\* the expression of a length directive of the label
LenExpression(line, lab, gas) ==
    LET sl == strip(line)
        head == IF gas THEN Len(DotSet) + Len(lab) + Len(LenSuffix) + 1
                ELSE Len(lab) + Len(LenSuffix) + 4
    IN  strip(SubSeq(sl, head + 1, Len(sl)))

\* the value the assembler gives the length directive at line d of a text
\* whose label is defined at line t
LenValue(text, t, d, lab, gas) ==
    LET e == LenExpression(text[d], lab, gas)
    IN  IF IsGeneratedLen(text[d], lab, gas) THEN BytesBetween(text, t, d - 1)
        ELSE IF Len(e) = 1 /\ \E k \in 1..10 : Digits[k] = e[1]
             THEN (CHOOSE k \in 1..10 : Digits[k] = e[1]) - 1
             ELSE -1

C5_ZeroLengthBlock ==
    (Spliced /\ new_bytes = <<>>) =>
        \A d \in 1..Len(content) :
            (BlockWithLen(Target, d)
                /\ \A m \in (Target + 1)..(d - 1) : IsPlainBlockLine(content[m])) =>
                LET t2 == FirstDef(result, label)
                    d2 == FirstLen(result, t2, label, is_gas)
                IN  /\ t2 > 0 /\ d2 > t2
                    /\ Cardinality({m \in t2..(d2 - 1) : EmittedBytes(result[m]) > 0}) = 1
                    /\ \A m \in t2..(d2 - 1) :
                          EmittedBytes(result[m]) > 0 => EmitsSingleZero(result[m])
                    /\ LenValue(result, t2, d2, label, is_gas) = 0

(***************************************************************************)
(* C6 - payload encoding: for a payload P of n >= 1 bytes the output holds *)
(* at the target label ceil(n/16) byte-emission lines, all but the last    *)
(* with 16 values, the last with the remaining ones, and the hexadecimal  *)
(* values read in order give back P; when the old block is a plain block   *)
(* closed by its length directive these are all the emission lines of the  *)
(* label and the directive evaluates to n (15 bytes: one line, length 15). *)
(***************************************************************************)
\* the value of a hexadecimal digit, -1 for any other character
HexValueOf == [c \in Range(HexDigits) |-> (CHOOSE k \in 1..16 : HexDigits[k] = c) - 1]
HexValue(c) == IF c \in DOMAIN HexValueOf THEN HexValueOf[c] ELSE -1

RECURSIVE ReadHexList(_)
\* the byte values of an operand list "0x.., 0x.., ...", <<-1>> when malformed
ReadHexList(s) ==
    IF Len(s) < 4 \/ s[1] # "0" \/ s[2] # "x"
          \/ HexValue(s[3]) < 0 \/ HexValue(s[4]) < 0
    THEN <<-1>>
    ELSE LET v == 16 * HexValue(s[3]) + HexValue(s[4])
         IN  IF Len(s) = 4 THEN <<v>>
             ELSE IF Len(s) >= 6 /\ s[5] = "," /\ s[6] = " "
                  THEN <<v>> \o ReadHexList(SubSeq(s, 7, Len(s)))
                  ELSE <<-1>>

\* the bytes a db / .byte line of hexadecimal values emits
ReadLine(line) == ReadHexList(OperandText(line))

RECURSIVE ReadLines(_, _, _)
\* the bytes of the lines a..b of a text
ReadLines(text, a, b) ==
    IF a > b THEN <<>> ELSE ReadLine(text[a]) \o ReadLines(text, a + 1, b)

LineCount(n) == (n + ChunkWidth - 1) \div ChunkWidth

LabelsOf(text) == {LabelName(text[k]) : k \in 1..Len(text)} \ {<<>>}

C7_LabelNamesPreserved ==
    pc = "patched" => LabelsOf(content) \subseteq LabelsOf(result)

\* one step of a run leaves the source of tool k as it was: the same
\* content, and the path neither opened for writing nor removed
SourceUntouched(k) ==
    /\ files'[Src(k)] = files[Src(k)]
    /\ Src(k) \in wrote' => Src(k) \in wrote

\* a temporary patched-source file of build_tool.py that still exists
LeftoverPatchedSource ==
    \E n \in TmpIds :
        \/ files[Tmp(n)].exists
        \/ files[InDir(Dir(n), "main.asm")].exists

\* the pc values of build_tool.py outside the three build functions
OutsideBuild == pc \in {"detect", "build", "verify", "summary", "uncaught", "exited"}

C9_TemporaryRemovedOnEveryPath ==
    (script = "build_tool" /\ OutsideBuild) => ~LeftoverPatchedSource

(***************************************************************************)
(* C10: when the assembler or the linker returns non-zero for one tool of  *)
(* a batch, only that tool fails: the failure is recorded, every later     *)
(* tool is still built and verified, and the results summary is produced.  *)
(***************************************************************************)
C10_BatchContinuesAfterToolFailure ==
    (script = "build_tool" /\ pc = "exited" /\ ~args.detect /\ Len(tools) > 1
        /\ exc \in {"none", "SystemExit"})
    => /\ summary
       /\ \A k \in 1..Len(tools) : k \in built \cup failed
       /\ total_fail >= Cardinality(failed)

\* the assembler invocations a strategy makes before it links
AssemblerCalls(t) ==
    IF t = "nasm_modular" THEN NumModules + 1
    ELSE IF t = "gas_unified" THEN 1
    ELSE 0

(***************************************************************************)
(* C11: no strategy continues past a failure. Once an assembler or linker  *)
(* invocation for a tool has returned non-zero, no further external tool   *)
(* is invoked for that tool, its output is not marked executable and the   *)
(* tool is not verified; the linker is invoked only after every assembler  *)
(* invocation of the tool has returned zero.                               *)
(***************************************************************************)
C11_NoStepPastFailure ==
    script = "build_tool" =>
        /\ \A i \in 1..Len(calls) : calls[i][2] = 1 => i = Len(calls)
        /\ \A i \in 1..Len(calls) :
              calls[i][1] = "ld" =>
                  /\ i = AssemblerCalls(tools[idx].type) + 1
                  /\ \A j \in 1..(i - 1) : calls[j][1] # "ld" /\ calls[j][2] = 0
        /\ \A k \in failed : k \notin built /\ ~files[Out(k)].exec

\* the assembly of the main source of a modular tool failed, after its
\* modules had been assembled, and the run is over
C11_Witness ==
    /\ pc = "exited"
    /\ idx \in failed
    /\ tools[idx].type = "nasm_modular"
    /\ Len(calls) = NumModules + 1
    /\ calls[Len(calls)] = <<"nasm", 1>>

(***************************************************************************)
(* C12: a timeout during probing degrades to "no data". When an invocation *)
(* of the reference binary made by detect_tool_data times out, no text is  *)
(* derived from it: the diagnostic of the timeout never becomes the help   *)
(* or the version text that is spliced into the source.                    *)
(***************************************************************************)
C12_TimeoutGivesNoData ==
    (pc = "probed" /\ script = "build_tool") =>
        /\ probes.help = "timeout" => ~contains(detected.help, TimedOutText)
        /\ probes.version = "timeout" => ~contains(detected.version, TimedOutText)

(***************************************************************************)
(* C13: every external-process invocation of the pipeline is individually  *)
(* time-bounded, so that a child process that never exits cannot keep the  *)
(* pipeline from terminating: every run of build_tool.py ends.             *)
(***************************************************************************)
C13_PipelineTerminates == <>(pc = "exited")

(***************************************************************************)
(* C14: the exit status of build_tool.py is non-zero if at least one       *)
(* requested tool failed to build or failed verification, and zero if none *)
(* did; a missing reference binary or missing markers do not by themselves *)
(* make it non-zero.                                                       *)
(***************************************************************************)
C14_ExitStatus ==
    (script = "build_tool" /\ pc = "exited") =>
        (exit_status # 0 <=> (failed # {} \/ mismatched # {} \/ exc # "none"))

\* a batch of two tools, both built, the first of which failed verification
C14_Witness ==
    /\ script = "build_tool" /\ pc = "exited"
    /\ Len(tools) = 2
    /\ built = {1, 2}
    /\ mismatched = {1}
    /\ exit_status = 1

\* the pc values inside the three build functions
InsideBuild == ~OutsideBuild /\ pc # "blocked"

(***************************************************************************)
(* C15: reference absent. When the reference binary is not found,          *)
(* detect_tool_data returns None: nothing is patched and no temporary      *)
(* patched file is created, the tool is built from its original source,    *)
(* verify_tool passes it as skipped and, the assembler and the linker      *)
(* succeeding, the process exits with status 0.                            *)
(***************************************************************************)
C15_ReferenceAbsent ==
    (script = "build_tool" /\ ~data.found) =>
        /\ InsideBuild =>
              /\ patched = <<>>
              /\ asm_input \in {NoPath, Src(idx)}
              /\ ~LeftoverPatchedSource
        /\ (pc = "exited" /\ exc = "none" /\ ~args.detect) =>
              /\ Len(tools) \in built \ mismatched
              /\ files[Out(Len(tools))].exec
              /\ Len(tools) = 1 => (exit_status = 0 /\ total_ok = 1)

\* a single tool whose reference binary was not found, built and passed
C15_Witness ==
    /\ script = "build_tool" /\ pc = "exited"
    /\ ~args.no_patch /\ ~args.no_verify /\ ~args.detect
    /\ Len(tools) = 1
    /\ ~data.found
    /\ asm_input = Src(1)
    /\ files[Out(1)].exec
    /\ exit_status = 0

\* the text lacks the start marker or the end marker of its dialect
MissingMarker(text, gas) ==
    LET markers == IF gas THEN MARKER_GAS ELSE MARKER_NASM
    IN  ~InText(text, markers[1]) \/ ~InText(text, markers[2])

\* the steps at which the assembler reads the main source
AssemblesMain == pc \in {"flat_nasm", "gas_as", "mod_asm_main"}

(***************************************************************************)
(* C16: marker not found. If the source text lacks the start marker or the *)
(* end marker of its dialect, patch_source returns the text identical to   *)
(* its input, no label being spliced, and the tool is still built, from    *)
(* that text.                                                              *)
(***************************************************************************)
C16_MarkerNotFound ==
    (script = "build_tool" /\ (InsideBuild \/ pc = "verify") /\ data.found
        /\ MissingMarker(files[Src(idx)].text, IsGasType(tools[idx].type)))
    => /\ patched # <<>> => patched = files[Src(idx)].text
       /\ AssemblesMain =>
             /\ asm_input # Src(idx)
             /\ files[asm_input].exists
             /\ files[asm_input].text = files[Src(idx)].text
       /\ pc = "verify" => files[Out(idx)].exec

\* a tool with data whose source lacks a marker, assembled from a temporary
\* copy and built
C16_Witness ==
    /\ script = "build_tool" /\ pc = "verify"
    /\ data.found
    /\ MissingMarker(files[Src(idx)].text, IsGasType(tools[idx].type))
    /\ patched = files[Src(idx)].text
    /\ asm_input \in {Tmp(n) : n \in TmpIds}
    /\ files[Out(idx)].exec

\* what the built binary would print when invoked by the bare tool name
OurHelpAsTool == Render(our.help_t, WcName)
OurVersionAsTool == Render(our.version_t, WcName)
Compared == pc = "verified" /\ detected.found /\ ~config.skip_verify

(***************************************************************************)
(* C17: split help in verify_tool. For a tool flagged help_split the help  *)
(* comparison is never performed, so a differing help output cannot make   *)
(* verification fail, while the version comparison is still performed, so  *)
(* a differing version output makes verification fail.                     *)
(***************************************************************************)
C17_SplitHelp ==
    (Compared /\ config.help_split) =>
        (verify_ok <=> OurVersionAsTool = detected.version)

\* a help_split tool whose help differs from the reference and whose version
\* agrees with it passes
C17_Witness ==
    /\ Compared /\ config.help_split
    /\ OurHelpAsTool # detected.help
    /\ OurVersionAsTool = detected.version
    /\ verify_ok

(***************************************************************************)
(* C18: verifier normalization. verify_tool replaces the path of the built *)
(* binary in its output and the name of the reference binary in the        *)
(* reference text by one shared token before comparing: two outputs that   *)
(* differ only in the invocation name or path they embed pass, and two     *)
(* sides that are byte-identical after normalization always pass.          *)
(***************************************************************************)
C18_Normalization ==
    (Compared /\ ~config.help_split) =>
        /\ (OurHelpAsTool = detected.help /\ OurVersionAsTool = detected.version)
              => verify_ok
        /\ (/\ OurNorm(our.help, binary_path, WcName)
                  = Expected(detected.help, WcName, WcName)
            /\ OurNorm(our.version, binary_path, WcName)
                  = Expected(detected.version, WcName, WcName))
              => verify_ok

\* the built binary prints its own path twice in its help and once in its
\* version, the reference printed its own, and the verification passes
C18_Witness ==
    /\ Compared /\ ~config.help_split
    /\ our.help_t = <<UsageText, Argv0, UsageTail, OrText, Argv0, VersionTail>>
    /\ our.version_t = <<Argv0, VersionTail>>
    /\ our.help # detected.help
    /\ verify_ok

\* the exclusion set, on a lowercased name
Excluded(nl) ==
    \/ contains(nl, FlagWord) \/ contains(nl, OptWord) \/ contains(nl, DashWord)
    \/ contains(nl, TryWord) \/ contains(nl, LenSuffix) \/ contains(nl, EndSuffix)

\* the names defined on the lines strictly between the two markers, and the
\* first of them that contains the word and nothing of the exclusion set
BetweenMarkers ==
    LET m == IF is_gas THEN MARKER_GAS ELSE MARKER_NASM
    IN  {k \in 1..Len(content) :
            FindLine(content, m[1]) < k /\ k < FindLine(content, m[2])}
InClass(k, word) ==
    LET nl == lower(SectionLabel(content[k], is_gas))
    IN  k \in BetweenMarkers /\ contains(nl, word) /\ ~Excluded(nl)
FirstInClass(word) ==
    IF \E k \in 1..Len(content) : InClass(k, word)
    THEN SectionLabel(content[CHOOSE k \in 1..Len(content) :
                                 /\ InClass(k, word)
                                 /\ \A j \in 1..(k - 1) : ~InClass(j, word)], is_gas)
    ELSE <<>>

(***************************************************************************)
(* C19: label classification in parse_data_section. Only the label         *)
(* definitions strictly between the two markers are considered; the help   *)
(* label is the first label whose lowercased name contains "help" and no   *)
(* substring of the exclusion set, the version label is the first label    *)
(* whose lowercased name contains "version" and no substring of that same  *)
(* exclusion set; a class without such a label yields none.                *)
(***************************************************************************)
C19_LabelClassification ==
    pc = "parsed" => result = <<FirstInClass(HelpWord), FirstInClass(VersionWord)>>

\* the first line of the error text of a rejected probe, up to the option
UnrecPrefix == replace(gnu_bin \o UnrecText, gnu_bin, GnuName(script))
InvalPrefix == replace(gnu_bin \o InvalText, gnu_bin, GnuName(script))
FirstLineLong == split(UnrecOutput(gnu_bin))[1]
FirstLineShort == split(InvalOutput(gnu_bin))[1]

(***************************************************************************)
(* C20: error-template decomposition in detect_tool_data. For each         *)
(* synthetic probe the reference binary rejects, the first line of the     *)
(* error text is split at the synthetic option itself: the captured prefix *)
(* is the text preceding the option (with the path of the reference binary *)
(* replaced by its name), the suffix of the long probe starts with the     *)
(* text following the option, an occurrence of the probe's characters in   *)
(* the program name does not move the split, and prefix + option + rest    *)
(* is the first line again.                                                *)
(***************************************************************************)
C20_ErrorTemplateSplit ==
    (pc = "probed" /\ script = "build_tool" /\ gnu_bin # <<>>) =>
        /\ probes.long = "rejected" =>
              /\ detected.err_unrec = UnrecPrefix
              /\ SubSeq(detected.err_suffix, 1, Len(QuoteText) + 1) = QuoteText \o <<"\n">>
              /\ TextBefore(FirstLineLong, LONG_PROBE) \o LONG_PROBE
                    \o TextAfter(FirstLineLong, LONG_PROBE) = FirstLineLong
        /\ probes.short = "rejected" =>
              /\ detected.err_inval = InvalPrefix
              /\ TextBefore(FirstLineShort, SHORT_PROBE) \o SHORT_PROBE
                    \o TextAfter(FirstLineShort, SHORT_PROBE) = FirstLineShort

DefLines == {k \in 1..Len(content) : IsLabelLine(strip(content[k]), label, is_gas)}
FirstDefLine == CHOOSE k \in DefLines : \A m \in DefLines : k <= m
LaterDefLines == IF DefLines = {} THEN {} ELSE DefLines \ {FirstDefLine}

(***************************************************************************)
(* C22: only the first occurrence of the target label is patched by        *)
(* replace_label_content. When a later line also matches the definition of *)
(* the target label, that line and its block (the lines from it to the end *)
(* of the text) are copied to the output unchanged; no second splice takes *)
(* place.                                                                  *)
(***************************************************************************)
C22_OnlyFirstOccurrencePatched ==
    SplicedPayload =>
        \A k \in LaterDefLines :
            /\ Len(result) >= Len(content) - k + 1
            /\ Suffix(result, Len(content) - k + 1) = SubSeq(content, k, Len(content))

\* the external tools a strategy invokes, in order
RECURSIVE Repeat(_, _)
Repeat(x, n) == IF n = 0 THEN <<>> ELSE <<x>> \o Repeat(x, n - 1)
StrategyCalls(t) ==
    IF t \in {"nasm_unified", "nasm_subdir"} THEN <<"nasm">>
    ELSE IF t = "nasm_modular" THEN Repeat("nasm", NumModules) \o <<"nasm", "ld">>
    ELSE IF t = "gas_unified" THEN <<"as", "ld">>
    ELSE <<>>
Invoked == [k \in 1..Len(calls) |-> calls[k][1]]
IsPrefix(a, b) == Len(a) <= Len(b) /\ SubSeq(b, 1, Len(a)) = a

EndLabelThenForeignLine(e) ==
    /\ Target > 0 /\ Target < e /\ e < Len(content)
    /\ strip(content[e]) = label \o EndColon
    /\ ~IsLenDirective(content[e + 1], label, is_gas)

(***************************************************************************)
(* C24: end-label lookahead of replace_label_content. After the end label  *)
(* of the target, the next line is consumed or rewritten only if it is the *)
(* length directive of the target itself; a next line that belongs to      *)
(* another block (the length directive of another label, or any line that  *)
(* merely contains "_len") is left unchanged in the output, with the lines *)
(* after it.                                                               *)
(***************************************************************************)
C24_LookaheadLeavesForeignLine ==
    SplicedPayload =>
        \A e \in 1..Len(content) :
            EndLabelThenForeignLine(e) =>
                /\ Len(result) >= Len(content) - e
                /\ Suffix(result, Len(content) - e) = SubSeq(content, e + 1, Len(content))

\* the lines of the two markers in the source text, 0 when absent
StartLine == FindLine(content, (IF is_gas THEN MARKER_GAS ELSE MARKER_NASM)[1])
EndLine == FindLine(content, (IF is_gas THEN MARKER_GAS ELSE MARKER_NASM)[2])

(***************************************************************************)
(* C25: region confinement of patch_source. For every source containing    *)
(* both markers, the patched text still contains the start marker line and *)
(* the end marker line, the text before the start marker and the text from *)
(* the end marker line on are the same as in the input; also when the      *)
(* block of the target label is the last thing before the end marker and   *)
(* has no length directive.                                                *)
(***************************************************************************)
C25_RegionConfinement ==
    (pc = "patched" /\ StartLine > 0 /\ EndLine > 0) =>
        /\ \E k \in 1..Len(result) : result[k] = content[StartLine]
        /\ \E k \in 1..Len(result) : result[k] = content[EndLine]
        /\ Len(result) >= StartLine
        /\ SubSeq(result, 1, StartLine) = SubSeq(content, 1, StartLine)
        /\ Len(result) >= Len(content) - EndLine + 1
        /\ Suffix(result, Len(content) - EndLine + 1)
             = SubSeq(content, EndLine, Len(content))

(***************************************************************************)
(* C26: re-application fixed point. For every source s, label l, non-empty *)
(* payload P and dialect, replace_label_content(replace_label_content(s,   *)
(* l, P), l, P) equals replace_label_content(s, l, P): splicing the same   *)
(* payload into an already spliced source changes nothing.                 *)
(***************************************************************************)
C26_ReapplicationFixedPoint ==
    (pc = "respliced" /\ Len(new_bytes) > 0) => again = result

\* the line at which the scan of the old block stopped: the first line the
\* outer loop sees after the splice
ScanStop == SkipOld(content, FirstDefLine + 1, label, is_gas).i

(***************************************************************************)
(* C27: frame of replace_label_content. Every line before the definition   *)
(* line of the target label is copied to the output unchanged and in       *)
(* order; every line from the one at which the scan stopped (after the     *)
(* terminator) to the end of the text is copied unchanged and in order;    *)
(* when no line matches the target label the output is the input.          *)
(***************************************************************************)
C27_Frame ==
    Spliced =>
        IF DefLines = {} THEN result = content
        ELSE /\ Len(result) >= FirstDefLine - 1
             /\ SubSeq(result, 1, FirstDefLine - 1) = SubSeq(content, 1, FirstDefLine - 1)
             /\ Len(result) >= (FirstDefLine - 1) + (Len(content) - ScanStop + 1)
             /\ Suffix(result, Len(content) - ScanStop + 1)
                  = SubSeq(content, ScanStop, Len(content))

\* a splice with a line before the target and a line left after the scan
C27_Witness ==
    /\ Spliced /\ DefLines # {}
    /\ FirstDefLine > 1 /\ ScanStop <= Len(content)
    /\ result # content

\* the scoped cleanups: the finally clauses of build_nasm_flat, build_gas
\* and main of yes/build.py
CleanupStep == pc \in {"flat_finally", "gas_finally", "yes_finally"}
\* the paths a step removes
Removed == {p \in AllPaths : files[p].exists /\ ~files'[p].exists}
\* the assembler input is the authored source: nothing was patched
BuiltUnpatched ==
    IF script = "yes" THEN tmp_asm = NoPath ELSE asm_input = Src(idx)

(***************************************************************************)
(* C28: cleanup never deletes the authored source. The file removed by the *)
(* scoped cleanup of build_nasm_flat, build_gas and main of yes/build.py   *)
(* is a temporary file created by that same run; when a tool is built      *)
(* unpatched (no data, or --no-patch), so that the assembler input is the  *)
(* original source path, the cleanup removes nothing, on success as on     *)
(* failure.                                                                *)
(***************************************************************************)
C28_CleanupRemovesOwnTemporaryOnly ==
    [][CleanupStep =>
          /\ \A p \in Removed :
                /\ p \in {Tmp(n) : n \in 1..ntmp}
                /\ p \in wrote
          /\ BuiltUnpatched => Removed = {}
          /\ \A k \in 1..Len(tools) : files'[Src(k)].exists]_vars

\* an unpatched flat build whose assembler failed has gone through its
\* cleanup, and the source is still there
C28_Witness ==
    /\ script = "build_tool" /\ pc = "uncaught" /\ exc = "SystemExit"
    /\ tools[idx].type \in {"nasm_unified", "nasm_subdir"}
    /\ asm_input = Src(idx) /\ ~data.found
    /\ Len(calls) = 1
    /\ files[Src(idx)].exists

(***************************************************************************)
(* C29: test-harness accounting. In every per-tool security test harness,  *)
(* after any sequence of passing, failing and skipped reports, the         *)
(* "failed" figure printed by print_summary equals the number of failing   *)
(* report_result calls: it is never negative, passed + failed + skipped    *)
(* add up to test_count, and it is 0 exactly when the exit status of the   *)
(* process is 0.                                                           *)
(***************************************************************************)
C29_HarnessAccounting ==
    (harness \in Harnesses /\ pc \in {"summarised", "exited"}) =>
        /\ shown.failed = reports.fail
        /\ shown.failed >= 0
        /\ shown.passed + shown.failed + shown.skipped = test_count
        /\ pc = "exited" => (shown.failed = 0 <=> exit_status = 0)

\* the reservations of the section in source order, the width of an element
\* and the number of elements of each
Reservations == SelectSeq(bss_lines, LAMBDA l : l.kind = "entry")
Width(size_type) ==
    IF size_type = "b" THEN 1 ELSE IF size_type = "w" THEN 2
    ELSE IF size_type = "d" THEN 4 ELSE 8
Elements(l) ==
    IF l.count_str = IobufName THEN 65536
    ELSE IF l.count_str = FrombufName THEN 4 * 1024 * 1024
    ELSE IF l.count_str = <<"1">> THEN 1
    ELSE 16
RECURSIVE SumSizes(_)
SumSizes(entries) ==
    IF entries = <<>> THEN 0 ELSE Head(entries).size + SumSizes(Tail(entries))

(***************************************************************************)
(* C30: BSS layout in build_unified.py. For the reservation entries parsed *)
(* from the .bss section, taken in source order, the first offset is 0,    *)
(* each following offset is the previous offset plus the previous size,    *)
(* each size is the element width (1, 2, 4, 8 for b, w, d, q) times the    *)
(* count, and bss_size is the sum of all sizes; hence the emitted ranges   *)
(* [bss_start + offset, bss_start + offset + size) never overlap and all   *)
(* lie within bss_size.                                                    *)
(***************************************************************************)
C30_BssLayout ==
    pc = "written" =>
        /\ Len(bss_entries) = Len(Reservations)
        /\ \A k \in 1..Len(bss_entries) :
              /\ bss_entries[k].size
                   = Width(Reservations[k].size_type) * Elements(Reservations[k])
              /\ bss_entries[k].offset
                   = IF k = 1 THEN 0
                     ELSE bss_entries[k - 1].offset + bss_entries[k - 1].size
              /\ bss_entries[k].offset >= 0
              /\ bss_entries[k].offset + bss_entries[k].size <= bss_size
        /\ bss_size = SumSizes(bss_entries)
        /\ \A j, k \in 1..Len(bss_entries) :
              j < k => bss_entries[j].offset + bss_entries[j].size <= bss_entries[k].offset

\* a section with three reservations, the second one behind a buffer of
\* IOBUF_SIZE quadwords
C30_Witness ==
    /\ pc = "written"
    /\ Len(bss_entries) = 3
    /\ bss_entries[2].offset = 8 * 65536
    /\ bss_size > bss_entries[3].offset

====
